---- MODULE Spec2Model ----
(***************************************************************************)
(* Model of the Clarify Data Bridge telemetry pipeline:                    *)
(*   - ExponentialBackoffRetryManager   (retry_manager.py)                 *)
(*   - BufferStrategyManager            (buffer_strategy.py)               *)
(*   - ClarifyDataCoordinator           (coordinator.py)                   *)
(*                                                                         *)
(* Time is counted in half seconds, so that the 1.5x backoff multiplier    *)
(* stays exact on integers.  base_delay and max_delay are whole seconds.   *)
(***************************************************************************)
EXTENDS Integers, Sequences, FiniteSets, TLC

VARIABLES
    \* ---- clock (dt_util.utcnow()), in half seconds
    now,
    \* ---- ExponentialBackoffRetryManager
    max_attempts, base_delay, max_delay, max_queue_size,
    retry_queue,          \* self._retry_queue (deque of RetryEntry)
    stats,                \* self.stats (RetryStatistics)
    retry_pc,             \* position of the process_retry_queue coroutine
    entries_to_process,   \* local of process_retry_queue; its head is in flight
    cycle_now,            \* local `now` of process_retry_queue
    next_id,              \* number of payloads handed to add_retry_entry so far
    sent,                 \* history: payload -> number of send_callback calls
    retry_result,         \* the counters process_retry_queue returns
    fate,                 \* history: payload -> none/queued/delivered/exhausted/evicted
    retry_last,           \* history: the last retry-manager operation
    \* ---- BufferStrategyManager
    strategy, time_interval, size_limit, priority_immediate, priority_threshold,
    adaptive_min_interval, adaptive_max_interval,
    high_priority_buffer, medium_priority_buffer, low_priority_buffer,
    last_flush_time,      \* self._last_flush_time
    metrics,              \* self.metrics (BufferMetrics)
    entry_timestamps,     \* self._entry_timestamps
    current_interval,     \* self._current_interval, in seconds
    next_entry,           \* number of entries handed to add_entry so far
    buffer_last,          \* history: the last buffer-manager operation
    \* ---- ClarifyDataCoordinator
    data_buffer,          \* self._data_buffer (the legacy dict input_id -> points)
    buffer_lock,          \* self._buffer_lock: "free" or "held"
    last_send_time,       \* <<>> for None, <<t>> otherwise
    total_data_points_sent, failed_sends, successful_sends,
    unsub_timer, check_timer,   \* whether each periodic timer is scheduled
    send_pc,              \* position of the _async_send_data coroutine
    send_data,            \* its `data` argument while it is suspended
    sends_started,        \* number of _async_send_data calls so far
    transport_log,        \* history: dataframes passed to async_insert_dataframe
    coord_last,           \* history: the last coordinator operation
    \* ---- DataValidator
    stale_threshold,      \* <<>> for None, <<half seconds>> otherwise
    validate_ranges, track_changes_only,
    last_values,          \* self._last_values: entity_id -> <<value, timestamp>>
    validation_stats,     \* self.validation_stats
    validator_last,       \* history: the last validate_and_convert call
    \* ---- ClarifyEntityListener
    listener_pc,          \* "idle", or "adding" inside the loop over the values
    pending,              \* the (suffix, value) pairs the loop has still to add
    events_processed, events_ignored, validation_failed,
    listener_last,        \* history: validations and added values of the last event
    \* ---- IntegrationHealthMonitor
    health_metrics,       \* self.metrics (HealthMetrics), the fields the score reads
    api_call_history,     \* self._api_call_history: the success flag of each kept call
    health_last           \* history: the last get_health_status call

retry_vars == <<max_attempts, base_delay, max_delay, max_queue_size, retry_queue,
                stats, retry_pc, entries_to_process, cycle_now, next_id, sent,
                retry_result, fate, retry_last>>

buffer_vars == <<strategy, time_interval, size_limit, priority_immediate,
                 priority_threshold, adaptive_min_interval, adaptive_max_interval,
                 high_priority_buffer, medium_priority_buffer, low_priority_buffer,
                 last_flush_time, metrics, entry_timestamps, current_interval,
                 next_entry, buffer_last>>

coord_vars == <<data_buffer, buffer_lock, last_send_time, total_data_points_sent,
                failed_sends, successful_sends, unsub_timer, check_timer, send_pc,
                send_data, sends_started, transport_log, coord_last>>

validator_vars == <<stale_threshold, validate_ranges, track_changes_only, last_values,
                    validation_stats, validator_last>>

listener_vars == <<listener_pc, pending, events_processed, events_ignored,
                   validation_failed, listener_last>>

health_vars == <<health_metrics, api_call_history, health_last>>

vars == <<now, retry_vars, buffer_vars, coord_vars, validator_vars, listener_vars,
          health_vars>>

---------------------------------------------------------------------------
(* Bounds of the model *)

MaxEntries == 3
MaxTime == 6
MaxAttemptArg == 6
MaxAttemptsBound == 3
MaxQueueBound == 2
MaxBufferEntries == 2
MaxSizeLimit == 2
MaxFlushes == 1
MaxBufferTime == 4
MaxSends == 1
MaxValidations == 2
MaxValidatorTime == 2
MaxEvents == 2
MaxCalls == 20
MaxRecords == 2
MaxKeywords == 2
MaxApiCalls == 4

\* program constants
AdaptiveWindow == 100
\* (base_delay, max_delay) pairs, in seconds
DelayConfigs == {<<1, 2>>, <<2, 20>>}
\* one reason per backoff multiplier (1, 3, 1.5, 2)
AddReasons == {"network_error", "rate_limit"}
\* (reason, whether a success callback is given) of the add_retry_entry calls
AddInputs == {<<"network_error", FALSE>>, <<"rate_limit", TRUE>>}
\* the streams and values handed to the coordinator
Streams == {"s1", "s2"}
Values == {10, 20}

---------------------------------------------------------------------------
(* Helpers *)

Min(a, b) == IF a <= b THEN a ELSE b

Pow2(n) == 2 ^ n

\* the payloads of a sequence of retry entries, in order
Ids(q) == [i \in 1..Len(q) |-> q[i].data]

---------------------------------------------------------------------------
(* retry_manager.py *)

RetryReason == {"network_error", "timeout", "rate_limit", "server_error",
                "authentication_error", "unknown"}

\* RetryEntry(data, attempt, max_attempts, last_attempt_time, next_retry_time,
\* reason, callback); callback is whether one is given
RetryEntry(data, reason, t) ==
    [data |-> data, attempt |-> 0, max_attempts |-> max_attempts,
     last_attempt_time |-> t, next_retry_time |-> t, reason |-> reason,
     callback |-> FALSE]

\* calculate_backoff_delay with the cap applied before the multiplier
calculate_backoff_delay_cap_first(attempt, reason) ==
    LET delay0 == Min((2 * base_delay) * Pow2(attempt), 2 * max_delay)
    IN  IF reason = "rate_limit" THEN delay0 * 3
        ELSE IF reason = "server_error" THEN (delay0 * 3) \div 2
        ELSE IF reason = "authentication_error" THEN delay0 * 2
        ELSE delay0

\* calculate_backoff_delay with the rate-limit and authentication multipliers swapped
calculate_backoff_delay_swapped(attempt, reason) ==
    LET delay0 == (2 * base_delay) * Pow2(attempt)
        delay1 == IF reason = "rate_limit" THEN delay0 * 2
                  ELSE IF reason = "server_error" THEN (delay0 * 3) \div 2
                  ELSE IF reason = "authentication_error" THEN delay0 * 3
                  ELSE delay0
    IN  Min(delay1, 2 * max_delay)

\* calculate_backoff_delay, result in half seconds
calculate_backoff_delay(attempt, reason) ==
    LET delay0 == (2 * base_delay) * Pow2(attempt)
        delay1 == IF reason = "rate_limit" THEN delay0 * 3
                  ELSE IF reason = "server_error" THEN (delay0 * 3) \div 2
                  ELSE IF reason = "authentication_error" THEN delay0 * 2
                  ELSE delay0
    IN  Min(delay1, 2 * max_delay)

\* add_retry_entry, lines 160-172: a full queue drops the head of the deque
EvictIfFull(q) == IF Len(q) >= max_queue_size THEN Tail(q) ELSE q

Evicted(q) == IF Len(q) >= max_queue_size THEN <<Head(q).data>> ELSE <<>>

\* an entry counts as ready once its last attempt is not in the future
IsReady_by_last_attempt(entry, t) == entry.last_attempt_time <= t

\* process_retry_queue, line 240
IsReady(entry, t) == entry.next_retry_time <= t

\* the exhaustion test off by one
ShouldRequeue_off_by_one(entry) == entry.attempt <= entry.max_attempts

\* process_retry_queue, lines 285 and 322
ShouldRequeue(entry) == entry.attempt < entry.max_attempts

\* process_retry_queue, lines 283-294 / 319-330: the entry after a failed send
Requeued(entry, reason, t) ==
    [entry EXCEPT !.next_retry_time = t + calculate_backoff_delay(entry.attempt, reason),
                  !.last_attempt_time = t]

InitStats == [total_retries |-> 0, successful_retries |-> 0, failed_retries |-> 0,
              abandoned_entries |-> 0, current_queue_size |-> 0, max_queue_size |-> 0]

ZeroResult == [processed |-> 0, successful |-> 0, failed |-> 0, requeued |-> 0]

NoOp == [op |-> "none"]

\* False is returned for a full queue
AddReturns_false_when_full(q) == Len(q) < max_queue_size

\* the value add_retry_entry returns for the queue it found (line 208)
AddReturns(q) == TRUE

\* add_retry_entry(data, reason, error_message, callback): data is the fresh
\* payload next_id + 1
AddRetryEntry(reason, callback) ==
    /\ next_id < MaxEntries
    /\ LET data == next_id + 1
           delay == calculate_backoff_delay(0, reason)
           entry == [RetryEntry(data, reason, now) EXCEPT !.next_retry_time = now + delay,
                                                         !.callback = callback]
           q == Append(EvictIfFull(retry_queue), entry)
       IN  /\ retry_queue' = q
           /\ stats' = [stats EXCEPT
                   !.abandoned_entries = @ + Len(Evicted(retry_queue)),
                   !.total_retries = @ + 1,
                   !.current_queue_size = Len(q),
                   !.max_queue_size = IF Len(q) > @ THEN Len(q) ELSE @]
           /\ next_id' = data
           /\ fate' = [d \in 1..MaxEntries |->
                        IF d = data THEN "queued"
                        ELSE IF Evicted(retry_queue) = <<d>> THEN "evicted"
                        ELSE fate[d]]
           /\ retry_last' = [op |-> "add", data |-> data, reason |-> reason,
                             pre_queue |-> Ids(retry_queue),
                             pre_abandoned |-> stats.abandoned_entries,
                             evicted |-> Evicted(retry_queue),
                             returned |-> AddReturns(retry_queue)]
    /\ UNCHANGED <<now, max_attempts, base_delay, max_delay, max_queue_size,
                   retry_pc, entries_to_process, cycle_now, retry_result, sent>>

\* process_retry_queue on an empty queue: returns at line 224
ProcessEmptyQueue ==
    /\ retry_pc = "idle"
    /\ retry_queue = <<>>
    /\ retry_result' = ZeroResult
    /\ retry_last' = [op |-> "process_empty"]
    /\ UNCHANGED <<now, max_attempts, base_delay, max_delay, max_queue_size,
                   retry_queue, stats, retry_pc, entries_to_process, cycle_now,
                   next_id, sent, fate>>

\* every ready entry is sent at once
StartSend_all(s, entries) ==
    [d \in DOMAIN s |-> IF \E i \in 1..Len(entries) : entries[i].data = d
                        THEN s[d] + 1 ELSE s[d]]

\* the send_callback(entry.data) call of line 260 starts
StartSend(s, entries) ==
    IF entries = <<>> THEN s
    ELSE [s EXCEPT ![Head(entries).data] = @ + 1]

\* process_retry_queue, lines 222-260: take the lock, partition the queue, and
\* run up to the first await (or to the end when no entry is ready)
ProcessBegin ==
    /\ retry_pc = "idle"
    /\ retry_queue # <<>>
    /\ LET ready == SelectSeq(retry_queue, LAMBDA e : IsReady(e, now))
           keep == SelectSeq(retry_queue, LAMBDA e : ~IsReady(e, now))
       IN  /\ retry_queue' = keep
           /\ entries_to_process' = ready
           /\ cycle_now' = IF ready = <<>> THEN 0 ELSE now
           /\ sent' = StartSend(sent, ready)
           /\ retry_result' = [ZeroResult EXCEPT !.processed = IF ready = <<>> THEN 0 ELSE 1]
           /\ retry_pc' = IF ready = <<>> THEN "idle" ELSE "sending"
           /\ stats' = IF ready = <<>>
                       THEN [stats EXCEPT !.current_queue_size = Len(keep)]
                       ELSE stats
           /\ retry_last' = [op |-> "process_begin", pre_queue |-> Ids(retry_queue),
                             pre_entries |-> retry_queue]
    /\ UNCHANGED <<now, max_attempts, base_delay, max_delay, max_queue_size, next_id,
                   fate>>

\* an exception of the success callback leaves the cycle
CycleRaises_uncaught_callback(outcome, callback_outcome) ==
    IF outcome = "success" /\ callback_outcome = "raises" THEN "Exception" ELSE "none"

\* the exception that leaves process_retry_queue while it settles an entry:
\* those of send_callback are caught at line 313 and those of the success
\* callback at line 275
CycleRaises(outcome, callback_outcome) == "none"

\* process_retry_queue, lines 260-338: the awaited send of the head entry ends
\* (True, False or an exception), after a success the entry's callback, when
\* it has one, is awaited (and returns or raises), the entry is settled, and
\* the loop runs to the next await or to the end of the cycle
SendReturns(outcome, callback_outcome) ==
    /\ retry_pc = "sending"
    /\ callback_outcome = "raises" =>
           (outcome = "success" /\ Head(entries_to_process).callback)
    /\ LET entry == Head(entries_to_process)
           raised == CycleRaises(outcome, callback_outcome)
           rest == IF raised = "none" THEN Tail(entries_to_process) ELSE <<>>
           failedEntry == [entry EXCEPT !.attempt = @ + 1]
           reason == IF outcome = "raise" THEN "unknown" ELSE entry.reason
           requeue == outcome # "success" /\ ShouldRequeue(failedEntry)
           abandon == outcome # "success" /\ ~ShouldRequeue(failedEntry)
           q == IF requeue
                THEN Append(retry_queue, Requeued(failedEntry, reason, cycle_now))
                ELSE retry_queue
           one(b) == IF b THEN 1 ELSE 0
       IN  /\ retry_queue' = q
           /\ entries_to_process' = rest
           /\ sent' = StartSend(sent, rest)
           /\ retry_result' = [retry_result EXCEPT
                   !.processed = @ + one(rest # <<>>),
                   !.successful = @ + one(outcome = "success"),
                   !.failed = @ + one(abandon),
                   !.requeued = @ + one(requeue)]
           /\ stats' = [stats EXCEPT
                   !.successful_retries = @ + one(outcome = "success"),
                   !.failed_retries = @ + one(abandon),
                   !.abandoned_entries = @ + one(abandon),
                   !.current_queue_size = IF rest = <<>> THEN Len(q) ELSE @]
           /\ retry_pc' = IF rest = <<>> THEN "idle" ELSE "sending"
           /\ retry_last' = [op |-> "send_returns", data |-> entry.data,
                             outcome |-> outcome, requeued |-> requeue,
                             abandoned |-> abandon,
                             callback_calls |-> one(outcome = "success" /\ entry.callback),
                             callback_outcome |-> callback_outcome,
                             has_callback |-> entry.callback,
                             attempt |-> entry.attempt,
                             raised |-> raised,
                             remaining |-> Ids(Tail(entries_to_process)),
                             pre_stats |-> stats]
           /\ cycle_now' = IF rest = <<>> THEN 0 ELSE cycle_now
           /\ fate' = [fate EXCEPT ![entry.data] =
                        IF outcome = "success" THEN "delivered"
                        ELSE IF abandon THEN "exhausted" ELSE @]
    /\ UNCHANGED <<now, max_attempts, base_delay, max_delay, max_queue_size, next_id>>

\* the clock advances to the time at which some queued entry becomes ready
RetryTick ==
    /\ \E i \in 1..Len(retry_queue) :
           /\ retry_queue[i].next_retry_time > now
           /\ retry_queue[i].next_retry_time <= MaxTime
           /\ now' = retry_queue[i].next_retry_time
    /\ retry_last' = NoOp
    /\ UNCHANGED <<max_attempts, base_delay, max_delay, max_queue_size, retry_queue,
                   stats, retry_pc, entries_to_process, cycle_now, next_id, sent,
                   retry_result, fate>>

\* ExponentialBackoffRetryManager.__init__ with the configuration drawn from
\* small sets
RetryInit ==
    /\ now = 0
    /\ max_attempts \in 1..MaxAttemptsBound
    /\ \E c \in DelayConfigs : base_delay = c[1] /\ max_delay = c[2]
    /\ max_queue_size \in 1..MaxQueueBound
    /\ retry_queue = <<>>
    /\ stats = InitStats
    /\ retry_pc = "idle"
    /\ entries_to_process = <<>>
    /\ cycle_now = 0
    /\ next_id = 0
    /\ sent = [d \in 1..MaxEntries |-> 0]
    /\ retry_result = ZeroResult
    /\ fate = [d \in 1..MaxEntries |-> "none"]
    /\ retry_last = NoOp

---------------------------------------------------------------------------
(* entity_selector.DataPriority: ordered HIGH > MEDIUM > LOW *)

DataPriority == {"HIGH", "MEDIUM", "LOW"}

PriorityValue(p) == CASE p = "HIGH" -> 3 [] p = "MEDIUM" -> 2 [] p = "LOW" -> 1

---------------------------------------------------------------------------
(* buffer_strategy.py *)

BufferStrategy == {"time", "size", "priority", "hybrid", "adaptive"}

FlushTrigger == {"time_interval", "size_limit", "priority", "manual", "shutdown",
                 "adaptive"}

NoTrigger == "none"

BufferEntry(id, input_id, value, timestamp, priority) ==
    [id |-> id, input_id |-> input_id, value |-> value, timestamp |-> timestamp,
     priority |-> priority]

\* avg_buffer_size and data_rate are kept as exact fractions
InitMetrics ==
    [total_entries |-> 0, flushes |-> 0,
     flush_triggers |-> [t \in FlushTrigger |-> 0],
     avg_buffer_size |-> [num |-> 0, den |-> 1],
     max_buffer_size |-> 0,
     data_rate |-> [num |-> 0, den |-> 1],
     last_flush_time |-> -1, last_flush_size |-> 0]

\* get_total_buffer_size
TotalSize(high, medium, low) == Len(high) + Len(medium) + Len(low)

get_total_buffer_size ==
    TotalSize(high_priority_buffer, medium_priority_buffer, low_priority_buffer)

\* _should_flush, lines 171-175: the immediate-flush test on the latest entry
PriorityCheck(latest) ==
    /\ priority_immediate
    /\ latest # <<>>
    /\ PriorityValue(latest[1].priority) >= PriorityValue(priority_threshold)

\* _check_time_based
check_time_based(t) ==
    IF t - last_flush_time >= 2 * time_interval THEN "time_interval" ELSE NoTrigger

\* the size test with > for >=
check_size_based_strict(total_size) ==
    IF total_size > size_limit THEN "size_limit" ELSE NoTrigger

\* _check_size_based
check_size_based(total_size) ==
    IF total_size >= size_limit THEN "size_limit" ELSE NoTrigger

\* _check_adaptive, lines 254-275: the interval for the observed rate
\* n / span (span in half seconds); the rate is 2n / span per second
AdaptiveInterval(timestamps, interval) ==
    LET n == Len(timestamps)
        span == IF n < 2 THEN 0 ELSE timestamps[n] - timestamps[1]
        range == adaptive_max_interval - adaptive_min_interval
    IN  IF n < 2 \/ span <= 0 THEN interval
        ELSE IF 2 * n > span THEN adaptive_min_interval
        ELSE IF 20 * n < span THEN adaptive_max_interval
        ELSE (9 * span * adaptive_max_interval - (20 * n - span) * range)
                 \div (9 * span)

AdaptiveRate(timestamps, rate) ==
    LET n == Len(timestamps)
        span == IF n < 2 THEN 0 ELSE timestamps[n] - timestamps[1]
    IN  IF n < 2 \/ span <= 0 THEN rate ELSE [num |-> 2 * n, den |-> span]

\* _check_adaptive
check_adaptive(total_size, timestamps, t) ==
    IF Len(timestamps) < 2 THEN NoTrigger
    ELSE IF t - last_flush_time >= 2 * AdaptiveInterval(timestamps, current_interval)
         THEN "adaptive"
    ELSE IF total_size >= size_limit THEN "size_limit"
    ELSE NoTrigger

\* _should_flush(latest_entry): latest is <<entry>> or <<>> (None)
should_flush(latest, total_size, timestamps, t) ==
    IF PriorityCheck(latest) THEN "priority"
    ELSE IF strategy = "time" THEN check_time_based(t)
    ELSE IF strategy = "size" THEN check_size_based(total_size)
    ELSE IF strategy = "priority"
         THEN (IF total_size >= size_limit THEN "size_limit" ELSE NoTrigger)
    ELSE IF strategy = "hybrid"
         THEN (IF check_time_based(t) # NoTrigger THEN check_time_based(t)
               ELSE check_size_based(total_size))
    ELSE IF strategy = "adaptive" THEN check_adaptive(total_size, timestamps, t)
    ELSE NoTrigger

\* whether _should_flush reaches _check_adaptive and so updates the interval
ReachesAdaptive(latest) == strategy = "adaptive" /\ ~PriorityCheck(latest)

\* add_entry, lines 152-156: the sliding window of arrival timestamps
TrackTimestamp(timestamps, ts) ==
    IF strategy # "adaptive" THEN timestamps
    ELSE LET appended == Append(timestamps, ts)
         IN  IF Len(appended) > AdaptiveWindow THEN Tail(appended) ELSE appended

\* add_entry(entry): the manager's fields and the returned trigger after the call
AddResult(entry) ==
    LET high == IF entry.priority = "HIGH" THEN Append(high_priority_buffer, entry)
                ELSE high_priority_buffer
        medium == IF entry.priority = "MEDIUM"
                  THEN Append(medium_priority_buffer, entry)
                  ELSE medium_priority_buffer
        low == IF entry.priority \notin {"HIGH", "MEDIUM"}
               THEN Append(low_priority_buffer, entry)
               ELSE low_priority_buffer
        current_size == TotalSize(high, medium, low)
        timestamps == TrackTimestamp(entry_timestamps, entry.timestamp)
    IN  [high |-> high, medium |-> medium, low |-> low,
         timestamps |-> timestamps,
         interval |-> IF ReachesAdaptive(<<entry>>)
                      THEN AdaptiveInterval(timestamps, current_interval)
                      ELSE current_interval,
         metrics |-> [metrics EXCEPT
                   !.total_entries = @ + 1,
                   !.max_buffer_size = IF current_size > @ THEN current_size ELSE @,
                   !.data_rate = IF ReachesAdaptive(<<entry>>)
                                 THEN AdaptiveRate(timestamps, @) ELSE @],
         size |-> current_size,
         trigger |-> should_flush(<<entry>>, current_size, timestamps, now)]

\* add_entry(entry) called on the manager directly
AddEntry(priority) ==
    /\ next_entry < MaxBufferEntries
    /\ LET entry == BufferEntry(next_entry + 1, "s1", next_entry + 1, now, priority)
           r == AddResult(entry)
       IN  /\ high_priority_buffer' = r.high
           /\ medium_priority_buffer' = r.medium
           /\ low_priority_buffer' = r.low
           /\ entry_timestamps' = r.timestamps
           /\ current_interval' = r.interval
           /\ metrics' = r.metrics
           /\ next_entry' = next_entry + 1
           /\ buffer_last' = [op |-> "add", entry |-> entry, trigger |-> r.trigger,
                              size |-> r.size]
    /\ UNCHANGED <<now, strategy, time_interval, size_limit, priority_immediate,
                   priority_threshold, adaptive_min_interval, adaptive_max_interval,
                   last_flush_time>>

\* a priority flush that also drains the medium sub-buffer
Drains_medium_too(trigger, level) ==
    IF trigger = "priority" THEN level \in {"high", "medium"} ELSE TRUE

\* a manual flush that drains the high sub-buffer only
Drains_manual_high_only(trigger, level) ==
    IF trigger \in {"priority", "manual"} THEN level = "high" ELSE TRUE

\* get_flush_data, lines 308-328: which sub-buffers a trigger drains
Drains(trigger, level) ==
    IF trigger = "priority" THEN level = "high" ELSE TRUE

\* the entries of a dict returned by get_flush_data, high first
Returned(data) == data.high \o data.medium \o data.low

\* a get_flush_data that clears every sub-buffer whatever the trigger but returns
\* only the sub-buffers the trigger drains
FlushResult_clears_all(high, medium, low, mtr, trigger) ==
    LET data == [high |-> IF Drains(trigger, "high") THEN high ELSE <<>>,
                 medium |-> IF Drains(trigger, "medium") THEN medium ELSE <<>>,
                 low |-> IF Drains(trigger, "low") THEN low ELSE <<>>]
        total_flushed == Len(data.high) + Len(data.medium) + Len(data.low)
    IN  [data |-> data,
         high |-> <<>>,
         medium |-> <<>>,
         low |-> <<>>,
         metrics |-> [mtr EXCEPT
                   !.flushes = @ + 1,
                   !.flush_triggers[trigger] = @ + 1,
                   !.last_flush_time = now,
                   !.last_flush_size = total_flushed,
                   !.avg_buffer_size = [num |-> @.num + total_flushed,
                                        den |-> mtr.flushes + 1]]]

\* get_flush_data(trigger) applied to the given sub-buffers and metrics: the
\* returned dict (an empty sequence stands for an absent key) and the fields after
FlushResult(high, medium, low, mtr, trigger) ==
    LET data == [high |-> IF Drains(trigger, "high") THEN high ELSE <<>>,
                 medium |-> IF Drains(trigger, "medium") THEN medium ELSE <<>>,
                 low |-> IF Drains(trigger, "low") THEN low ELSE <<>>]
        total_flushed == Len(data.high) + Len(data.medium) + Len(data.low)
    IN  [data |-> data,
         high |-> IF Drains(trigger, "high") THEN <<>> ELSE high,
         medium |-> IF Drains(trigger, "medium") THEN <<>> ELSE medium,
         low |-> IF Drains(trigger, "low") THEN <<>> ELSE low,
         metrics |-> [mtr EXCEPT
                   !.flushes = @ + 1,
                   !.flush_triggers[trigger] = @ + 1,
                   !.last_flush_time = now,
                   !.last_flush_size = total_flushed,
                   !.avg_buffer_size = [num |-> @.num + total_flushed,
                                        den |-> mtr.flushes + 1]]]

\* get_flush_data(trigger) called on the manager directly
GetFlushData(trigger) ==
    /\ metrics.flushes < MaxFlushes
    /\ LET r == FlushResult(high_priority_buffer, medium_priority_buffer,
                            low_priority_buffer, metrics, trigger)
       IN  /\ high_priority_buffer' = r.high
           /\ medium_priority_buffer' = r.medium
           /\ low_priority_buffer' = r.low
           /\ metrics' = r.metrics
           /\ last_flush_time' = now
           /\ buffer_last' = [op |-> "flush", trigger |-> trigger,
                              returned |-> r.data,
                              pre_high |-> high_priority_buffer,
                              pre_medium |-> medium_priority_buffer,
                              pre_low |-> low_priority_buffer,
                              after |-> IF buffer_last.op = "add"
                                        THEN buffer_last ELSE NoOp]
    /\ UNCHANGED <<now, strategy, time_interval, size_limit, priority_immediate,
                   priority_threshold, adaptive_min_interval, adaptive_max_interval,
                   entry_timestamps, current_interval, next_entry>>

\* _should_flush() called without a latest entry (the pull-based check)
ShouldFlush ==
    /\ current_interval' = IF ReachesAdaptive(<<>>)
                           THEN AdaptiveInterval(entry_timestamps, current_interval)
                           ELSE current_interval
    /\ metrics' = [metrics EXCEPT
            !.data_rate = IF ReachesAdaptive(<<>>)
                          THEN AdaptiveRate(entry_timestamps, @) ELSE @]
    /\ buffer_last' = [op |-> "check",
                       trigger |-> should_flush(<<>>, get_total_buffer_size,
                                                entry_timestamps, now)]
    /\ UNCHANGED <<now, strategy, time_interval, size_limit, priority_immediate,
                   priority_threshold, adaptive_min_interval, adaptive_max_interval,
                   high_priority_buffer, medium_priority_buffer, low_priority_buffer,
                   last_flush_time, entry_timestamps, next_entry>>

\* the clock advances by one time_interval
BufferTick ==
    /\ now + 2 * time_interval <= MaxBufferTime
    /\ now' = now + 2 * time_interval
    /\ buffer_last' = NoOp
    /\ UNCHANGED <<strategy, time_interval, size_limit, priority_immediate,
                   priority_threshold, adaptive_min_interval, adaptive_max_interval,
                   high_priority_buffer, medium_priority_buffer, low_priority_buffer,
                   last_flush_time, metrics, entry_timestamps, current_interval,
                   next_entry>>

\* BufferStrategyManager.__init__ in its state after construction, for one
\* given configuration
BufferConstructed(strat, interval, limit, immediate, threshold, amin, amax) ==
    /\ strategy = strat
    /\ time_interval = interval
    /\ size_limit = limit
    /\ priority_immediate = immediate
    /\ priority_threshold = threshold
    /\ adaptive_min_interval = amin
    /\ adaptive_max_interval = amax
    /\ high_priority_buffer = <<>>
    /\ medium_priority_buffer = <<>>
    /\ low_priority_buffer = <<>>
    /\ last_flush_time = now
    /\ metrics = InitMetrics
    /\ entry_timestamps = <<>>
    /\ current_interval = interval
    /\ next_entry = 0
    /\ buffer_last = NoOp

---------------------------------------------------------------------------
(* ClarifyDataCoordinator (coordinator.py) *)

\* dict.extend over the keys of `data`: a dict is a function on its keys
Extend(buf, data) ==
    [k \in DOMAIN buf \cup DOMAIN data |->
        (IF k \in DOMAIN buf THEN buf[k] ELSE <<>>)
            \o (IF k \in DOMAIN data THEN data[k] ELSE <<>>)]

\* the timestamps in descending order
RECURSIVE Sorted_descending(_)
Sorted_descending(S) ==
    IF S = {} THEN <<>>
    ELSE LET m == CHOOSE x \in S : \A y \in S : x >= y
         IN  <<m>> \o Sorted_descending(S \ {m})

\* sorted(all_timestamps)
RECURSIVE Sorted(_)
Sorted(S) ==
    IF S = {} THEN <<>>
    ELSE LET m == CHOOSE x \in S : \A y \in S : x <= y
         IN  <<m>> \o Sorted(S \ {m})

\* datetime.isoformat() of a UTC instant counted in half seconds
IsoFormat(ts) == <<"T", ts \div 2, IF ts % 2 = 0 THEN "000000" ELSE "500000", "+00:00">>

\* value_map.get(ts): the last point with that timestamp wins; <<>> is None
ValueAt(points, ts) ==
    LET hits == {i \in DOMAIN points : points[i][1] = ts}
    IN  IF hits = {} THEN <<>>
        ELSE <<points[CHOOSE i \in hits : \A j \in hits : j <= i][2]>>

\* _build_dataframe(data)
build_dataframe(data) ==
    LET all_timestamps == UNION {{data[k][i][1] : i \in DOMAIN data[k]} : k \in DOMAIN data}
        sorted_timestamps == Sorted(all_timestamps)
    IN  [times |-> [j \in DOMAIN sorted_timestamps |-> IsoFormat(sorted_timestamps[j])],
         series |-> [k \in DOMAIN data |->
                        [j \in DOMAIN sorted_timestamps |->
                            ValueAt(data[k], sorted_timestamps[j])]]]

\* _async_send_data, lines 273-276: the values of the dataframe that are not None
RECURSIVE CountOver(_, _)
CountOver(series, keys) ==
    IF keys = {} THEN 0
    ELSE LET k == CHOOSE x \in keys : TRUE
         IN  Cardinality({j \in DOMAIN series[k] : series[k][j] # <<>>})
                 + CountOver(series, keys \ {k})

data_points(dataframe) == CountOver(dataframe.series, DOMAIN dataframe.series)

\* _async_flush_buffer(trigger) on the given manager fields.  get_flush_data
\* returns a dict keyed by priority level; `for entry in buffer_data` walks its
\* keys, so `entry.input_id` raises AttributeError on the first key and the
\* lines after the loop, _async_send_data included, are never reached.
FlushBuffer(high, medium, low, mtr, trigger) ==
    LET r == FlushResult(high, medium, low, mtr, trigger)
    IN  [manager |-> r,
         drained |-> Returned(r.data),
         sent |-> <<>>,
         raised |-> IF Returned(r.data) = <<>> THEN "none" ELSE "AttributeError"]

\* the record of one coordinator operation that reached _async_flush_buffer
FlushRecord(name, trigger, f) ==
    [op |-> name, trigger |-> trigger, flushed |-> TRUE, drained |-> f.drained,
     sent |-> f.sent, raised |-> f.raised]

\* the manager's fields after a flush
ManagerAfterFlush(f) ==
    /\ high_priority_buffer' = f.manager.high
    /\ medium_priority_buffer' = f.manager.medium
    /\ low_priority_buffer' = f.manager.low
    /\ metrics' = f.manager.metrics
    /\ last_flush_time' = now

\* start()
Start ==
    /\ unsub_timer' = TRUE
    /\ check_timer' = IF unsub_timer THEN check_timer ELSE TRUE
    /\ coord_last' = [op |-> "start"]
    /\ UNCHANGED <<now, buffer_vars, data_buffer, buffer_lock, last_send_time,
                   total_data_points_sent, failed_sends, successful_sends, send_pc,
                   send_data, sends_started, transport_log>>

\* the record of a flush that asks no policy: what was buffered, what the
\* pull-based check would have answered, and the trigger's counter before it
UnconditionalRecord(name, trigger, f) ==
    [pre_entries |-> high_priority_buffer \o medium_priority_buffer
                         \o low_priority_buffer,
     pre_trigger |-> should_flush(<<>>, get_total_buffer_size, entry_timestamps, now),
     pre_count |-> metrics.flush_triggers[trigger],
     pre_manager |-> [high |-> high_priority_buffer,
                      medium |-> medium_priority_buffer,
                      low |-> low_priority_buffer, metrics |-> metrics]]
        @@ FlushRecord(name, trigger, f)

\* what stop() found: the timers and the flush counters before the call
StopRecord(f) ==
    [pre_unsub_timer |-> unsub_timer, pre_check_timer |-> check_timer,
     pre_shutdown |-> metrics.flush_triggers["shutdown"],
     pre_flushes |-> metrics.flushes] @@ UnconditionalRecord("stop", "shutdown", f)

\* a stop() that leaves the 10-second check timer scheduled
Stop_keeps_check_timer ==
    /\ metrics.flushes < MaxFlushes
    /\ unsub_timer' = FALSE
    /\ check_timer' = check_timer
    /\ LET f == FlushBuffer(high_priority_buffer, medium_priority_buffer,
                            low_priority_buffer, metrics, "shutdown")
       IN  /\ ManagerAfterFlush(f)
           /\ coord_last' = StopRecord(f)
    /\ buffer_last' = NoOp
    /\ UNCHANGED <<now, strategy, time_interval, size_limit, priority_immediate,
                   priority_threshold, adaptive_min_interval, adaptive_max_interval,
                   entry_timestamps, current_interval, next_entry,
                   data_buffer, buffer_lock, last_send_time,
                   total_data_points_sent, failed_sends, successful_sends, send_pc,
                   send_data, sends_started, transport_log>>

\* stop(): cancels the timers, then flushes without taking the lock
Stop ==
    /\ metrics.flushes < MaxFlushes
    /\ unsub_timer' = FALSE
    /\ check_timer' = FALSE
    /\ LET f == FlushBuffer(high_priority_buffer, medium_priority_buffer,
                            low_priority_buffer, metrics, "shutdown")
       IN  /\ ManagerAfterFlush(f)
           /\ coord_last' = StopRecord(f)
    /\ buffer_last' = NoOp
    /\ UNCHANGED <<now, strategy, time_interval, size_limit, priority_immediate,
                   priority_threshold, adaptive_min_interval, adaptive_max_interval,
                   entry_timestamps, current_interval, next_entry,
                   data_buffer, buffer_lock, last_send_time,
                   total_data_points_sent, failed_sends, successful_sends, send_pc,
                   send_data, sends_started, transport_log>>

\* add_data_point(input_id, value) with the default timestamp; the lock is
\* taken and, the call having returned or raised, released again
AddDataPoint(input_id, value) ==
    /\ next_entry < MaxBufferEntries
    /\ buffer_lock = "free"
    /\ LET entry == BufferEntry(next_entry + 1, input_id, value, now, "LOW")
           a == AddResult(entry)
           flushes == a.trigger # NoTrigger
           f == FlushBuffer(a.high, a.medium, a.low, a.metrics, a.trigger)
       IN  /\ IF flushes THEN ManagerAfterFlush(f)
              ELSE /\ high_priority_buffer' = a.high
                   /\ medium_priority_buffer' = a.medium
                   /\ low_priority_buffer' = a.low
                   /\ metrics' = a.metrics
                   /\ last_flush_time' = last_flush_time
           /\ entry_timestamps' = a.timestamps
           /\ current_interval' = a.interval
           /\ data_buffer' = Extend(data_buffer,
                                    [k \in {input_id} |-> <<<<now, value>>>>])
           /\ coord_last' =
                  [entry |-> entry] @@
                  (IF flushes
                   THEN FlushRecord("add_data_point", a.trigger, f)
                   ELSE [op |-> "add_data_point", trigger |-> NoTrigger,
                         flushed |-> FALSE, drained |-> <<>>,
                         sent |-> <<>>, raised |-> "none"])
    /\ next_entry' = next_entry + 1
    /\ buffer_last' = NoOp
    /\ UNCHANGED <<now, strategy, time_interval, size_limit, priority_immediate,
                   priority_threshold, adaptive_min_interval, adaptive_max_interval,
                   buffer_lock, last_send_time,
                   total_data_points_sent, failed_sends, successful_sends,
                   unsub_timer, check_timer, send_pc, send_data, sends_started,
                   transport_log>>

\* _async_check_buffer(now), the callback of both timers
CheckBuffer ==
    /\ unsub_timer \/ check_timer
    /\ buffer_lock = "free"
    /\ LET trigger == should_flush(<<>>, get_total_buffer_size, entry_timestamps, now)
           flushes == trigger # NoTrigger
           mtr == [metrics EXCEPT
                      !.data_rate = IF ReachesAdaptive(<<>>)
                                    THEN AdaptiveRate(entry_timestamps, @) ELSE @]
           f == FlushBuffer(high_priority_buffer, medium_priority_buffer,
                            low_priority_buffer, mtr, trigger)
       IN  /\ flushes => metrics.flushes < MaxFlushes
           /\ IF flushes THEN ManagerAfterFlush(f)
              ELSE /\ metrics' = mtr
                   /\ UNCHANGED <<high_priority_buffer, medium_priority_buffer,
                                  low_priority_buffer, last_flush_time>>
           /\ coord_last' = IF flushes THEN FlushRecord("check_buffer", trigger, f)
                            ELSE [op |-> "check_buffer", trigger |-> NoTrigger,
                                  flushed |-> FALSE, drained |-> <<>>,
                                  sent |-> <<>>, raised |-> "none"]
    /\ current_interval' = IF ReachesAdaptive(<<>>)
                           THEN AdaptiveInterval(entry_timestamps, current_interval)
                           ELSE current_interval
    /\ buffer_last' = NoOp
    /\ UNCHANGED <<now, strategy, time_interval, size_limit, priority_immediate,
                   priority_threshold, adaptive_min_interval, adaptive_max_interval,
                   entry_timestamps, next_entry,
                   data_buffer, buffer_lock, last_send_time,
                   total_data_points_sent, failed_sends, successful_sends,
                   unsub_timer, check_timer, send_pc, send_data, sends_started,
                   transport_log>>

\* manual_flush()
ManualFlush ==
    /\ metrics.flushes < MaxFlushes
    /\ buffer_lock = "free"
    /\ LET f == FlushBuffer(high_priority_buffer, medium_priority_buffer,
                            low_priority_buffer, metrics, "manual")
       IN  /\ ManagerAfterFlush(f)
           /\ coord_last' = UnconditionalRecord("manual_flush", "manual", f)
    /\ buffer_last' = NoOp
    /\ UNCHANGED <<now, strategy, time_interval, size_limit, priority_immediate,
                   priority_threshold, adaptive_min_interval, adaptive_max_interval,
                   entry_timestamps, current_interval, next_entry,
                   data_buffer, buffer_lock, last_send_time,
                   total_data_points_sent, failed_sends, successful_sends,
                   unsub_timer, check_timer, send_pc, send_data, sends_started,
                   transport_log>>

\* the clock advances by one batch_interval
CoordTick ==
    /\ now + 2 * time_interval <= MaxBufferTime
    /\ now' = now + 2 * time_interval
    /\ coord_last' = NoOp
    /\ buffer_last' = NoOp
    /\ UNCHANGED <<strategy, time_interval, size_limit, priority_immediate,
                   priority_threshold, adaptive_min_interval, adaptive_max_interval,
                   high_priority_buffer, medium_priority_buffer, low_priority_buffer,
                   last_flush_time, metrics, entry_timestamps, current_interval,
                   next_entry,
                   data_buffer, buffer_lock, last_send_time,
                   total_data_points_sent, failed_sends, successful_sends,
                   unsub_timer, check_timer, send_pc, send_data, sends_started,
                   transport_log>>

\* _async_send_data(data, trigger) up to its first await; `held` tells whether
\* the caller entered it from inside `async with self._buffer_lock`.  The
\* trigger argument is only logged.
SendData(data, held) ==
    /\ send_pc = "idle"
    /\ sends_started < MaxSends
    /\ sends_started' = sends_started + 1
    /\ LET dataframe == build_dataframe(data)
       IN  IF dataframe.times = <<>>
           THEN /\ coord_last' = [op |-> "send", outcome |-> "no_points",
                                  data |-> data]
                /\ UNCHANGED <<send_pc, send_data, buffer_lock, transport_log>>
           ELSE /\ send_pc' = "inserting"
                /\ send_data' = data
                /\ buffer_lock' = IF held THEN "held" ELSE "free"
                /\ transport_log' = Append(transport_log, dataframe)
                /\ coord_last' = [op |-> "send", outcome |-> "awaiting",
                                  data |-> data]
    /\ UNCHANGED <<now, buffer_vars, retry_vars, data_buffer, last_send_time,
                   total_data_points_sent, failed_sends, successful_sends,
                   unsub_timer, check_timer>>

\* the record of a finished _async_send_data call
SendRecord(outcome) ==
    [op |-> "send", outcome |-> outcome, data |-> send_data,
     lock |-> buffer_lock, pre_failed |-> failed_sends,
     pre_buffer |-> data_buffer, pre_retry |-> Len(retry_queue)]

\* async_insert_dataframe returns or raises, and _async_send_data runs on: to
\* its end, or to `async with self._buffer_lock` (line 292) where it waits for
\* a lock that its own caller holds
InsertReturns(outcome) ==
    /\ send_pc = "inserting"
    /\ coord_last' = SendRecord(outcome)
    /\ IF outcome = "ok"
       THEN /\ last_send_time' = <<now>>
            /\ total_data_points_sent' =
                   total_data_points_sent + data_points(build_dataframe(send_data))
            /\ successful_sends' = successful_sends + 1
            /\ send_pc' = "idle"
            /\ buffer_lock' = "free"
            /\ UNCHANGED <<failed_sends, data_buffer>>
       ELSE IF outcome = "ClarifyConnectionError"
       THEN /\ failed_sends' = failed_sends + 1
            /\ IF buffer_lock = "free"
               THEN /\ data_buffer' = Extend(data_buffer, send_data)
                    /\ send_pc' = "idle"
               ELSE /\ send_pc' = "waiting_lock"
                    /\ UNCHANGED data_buffer
            /\ UNCHANGED <<last_send_time, total_data_points_sent, successful_sends,
                           buffer_lock>>
       ELSE /\ failed_sends' = failed_sends + 1
            /\ send_pc' = "idle"
            /\ buffer_lock' = "free"
            /\ UNCHANGED <<last_send_time, total_data_points_sent, successful_sends,
                           data_buffer>>
    /\ UNCHANGED <<now, buffer_vars, retry_vars, send_data, sends_started,
                   unsub_timer, check_timer, transport_log>>

\* the clock advances by half a second while async_insert_dataframe is in flight
SendTick ==
    /\ send_pc = "inserting"
    /\ now < sends_started
    /\ now' = now + 1
    /\ UNCHANGED <<buffer_vars, retry_vars, coord_vars>>

\* ClarifyDataCoordinator.__init__, the fields of the coordinator itself
CoordConstructed ==
    /\ data_buffer = <<>>
    /\ buffer_lock = "free"
    /\ last_send_time = <<>>
    /\ total_data_points_sent = 0
    /\ failed_sends = 0
    /\ successful_sends = 0
    /\ unsub_timer = FALSE
    /\ check_timer = FALSE
    /\ send_pc = "idle"
    /\ send_data = <<>>
    /\ sends_started = 0
    /\ transport_log = <<>>
    /\ coord_last = NoOp

---------------------------------------------------------------------------
(* DataValidator (data_validator.py) *)

\* A raw input is [kind, s, n]: kind "number" (the int or float n), "nan" and
\* "inf" (the floats), "bigint" (an int beyond the float range, 10**400),
\* "bool" (n is 1 or 0), "string" (s), "none", "list" and "mapping".
Raw(kind, str, num) == [kind |-> kind, s |-> str, n |-> num]

RawValues ==
    {Raw("number", "", 21), Raw("number", "", 150),
     Raw("nan", "", 0), Raw("bigint", "", 0), Raw("bool", "", 1),
     Raw("string", "OFF", 0), Raw("string", "21", 0),
     Raw("string", "abc", 0), Raw("string", "nan", 0), Raw("string", "unavailable", 0),
     Raw("none", "", 0), Raw("list", "", 0)}

\* a float: class "finite" with value n, "nan" or "inf"
Float(class, num) == [class |-> class, n |-> num]

ValidationResult ==
    {"valid", "invalid_state", "invalid_type", "invalid_range", "stale", "unchanged",
     "duplicate"}

\* DataValidator.INVALID_STATES without None
INVALID_STATES == {"unavailable", "unknown", "", "None", "none"}

\* DataValidator.BOOLEAN_STATE_MAP
BOOLEAN_STATE_MAP ==
    [k \in {"on", "off", "home", "not_home", "open", "closed", "locked", "unlocked",
            "true", "false", "yes", "no", "active", "inactive", "detected", "clear"} |->
        IF k \in {"on", "home", "open", "locked", "true", "yes", "active", "detected"}
        THEN 1 ELSE 0]

\* DataValidator.NUMERIC_RANGES
NUMERIC_RANGES ==
    [temperature |-> <<-100, 200>>, humidity |-> <<0, 100>>, pressure |-> <<0, 2000>>,
     battery |-> <<0, 100>>, brightness |-> <<0, 255>>, volume_level |-> <<0, 1>>,
     pm25 |-> <<0, 1000>>, pm10 |-> <<0, 1000>>, carbon_dioxide |-> <<0, 10000>>,
     aqi |-> <<0, 500>>, illuminance |-> <<0, 200000>>, power |-> <<-50000, 50000>>,
     energy |-> <<0, 1000000>>, voltage |-> <<0, 500>>, current |-> <<0, 100>>,
     power_factor |-> <<-1, 1>>]

\* str.lower() on the strings of RawValues
Lower(str) == IF str = "OFF" THEN "off" ELSE str

\* float(str) on the strings of RawValues: <<>> when it raises ValueError
FloatOfString(str) ==
    IF str = "21" THEN <<Float("finite", 21)>>
    ELSE IF str = "nan" THEN <<Float("nan", 0)>>
    ELSE <<>>

\* `value in self.INVALID_STATES`: hashing a list or a dict raises TypeError
InInvalidStates(value) ==
    IF value.kind \in {"list", "mapping"} THEN "TypeError"
    ELSE IF value.kind = "none" THEN "yes"
    ELSE IF value.kind = "string" /\ value.s \in INVALID_STATES THEN "yes"
    ELSE "no"

\* _convert_to_numeric(value): (numeric_value, was_converted), or the exception
\* float(value) raises.  A bool is an int, so the isinstance test of line 269
\* takes it before the boolean branch of line 286.
convert_to_numeric(value) ==
    IF value.kind \in {"number", "bool"}
    THEN [value |-> <<Float("finite", value.n)>>, converted |-> FALSE, raised |-> "none"]
    ELSE IF value.kind \in {"nan", "inf"}
    THEN [value |-> <<Float(value.kind, 0)>>, converted |-> FALSE, raised |-> "none"]
    ELSE IF value.kind = "bigint"
    THEN [value |-> <<>>, converted |-> FALSE, raised |-> "OverflowError"]
    ELSE IF value.kind = "string" /\ Lower(value.s) \in DOMAIN BOOLEAN_STATE_MAP
    THEN [value |-> <<Float("finite", BOOLEAN_STATE_MAP[Lower(value.s)])>>,
          converted |-> TRUE, raised |-> "none"]
    ELSE IF value.kind = "string"
    THEN [value |-> FloatOfString(value.s), converted |-> FALSE, raised |-> "none"]
    ELSE [value |-> <<>>, converted |-> FALSE, raised |-> "none"]

\* _is_valid_numeric(value)
is_valid_numeric(value) == value.class = "finite"

\* _is_in_valid_range(value, device_class)
is_in_valid_range(value, device_class) ==
    IF device_class \notin DOMAIN NUMERIC_RANGES THEN TRUE
    ELSE /\ NUMERIC_RANGES[device_class][1] <= value.n
         /\ value.n <= NUMERIC_RANGES[device_class][2]

\* an equal value with a newer timestamp counts as unchanged
has_value_changed_by_value_only(entity_id, value, timestamp) ==
    IF entity_id \notin DOMAIN last_values THEN TRUE
    ELSE value # last_values[entity_id][1]

\* _has_value_changed(entity_id, value, timestamp): the returned flag; the
\* entry of _last_values is replaced exactly when the flag is True
has_value_changed(entity_id, value, timestamp) ==
    IF entity_id \notin DOMAIN last_values THEN TRUE
    ELSE \/ value # last_values[entity_id][1]
         \/ timestamp > last_values[entity_id][2]

\* the outcome of a validate_and_convert call: the result (or "none" when the
\* call raised), the numeric value, and the exception that left the call
Outcome(result, value, converted, raised) ==
    [result |-> result, value |-> value, converted |-> converted, raised |-> raised]

\* validate_and_convert(value, entity_id, device_class, timestamp); entity_id
\* and device_class are "" for None (both are tested for truth only)
\* a validate_and_convert that looks at the timestamp's age before the
\* sentinel states
validate_and_convert_stale_first(value, entity_id, device_class, timestamp) ==
    LET numeric == convert_to_numeric(value)
    IN  IF stale_threshold # <<>> /\ timestamp < now - stale_threshold[1]
        THEN Outcome("stale", <<>>, FALSE, "none")
        ELSE IF InInvalidStates(value) = "TypeError"
        THEN Outcome("none", <<>>, FALSE, "TypeError")
        ELSE IF InInvalidStates(value) = "yes"
        THEN Outcome("invalid_state", <<>>, FALSE, "none")
        ELSE IF numeric.raised # "none"
        THEN Outcome("none", <<>>, FALSE, numeric.raised)
        ELSE IF numeric.value = <<>> \/ ~is_valid_numeric(numeric.value[1])
        THEN Outcome("invalid_type", numeric.value, FALSE, "none")
        ELSE IF /\ validate_ranges
                /\ device_class # ""
                /\ ~is_in_valid_range(numeric.value[1], device_class)
        THEN Outcome("invalid_range", numeric.value, numeric.converted, "none")
        ELSE IF /\ track_changes_only
                /\ entity_id # ""
                /\ ~has_value_changed(entity_id, numeric.value[1], timestamp)
        THEN Outcome("unchanged", numeric.value, numeric.converted, "none")
        ELSE Outcome("valid", numeric.value, numeric.converted, "none")

validate_and_convert(value, entity_id, device_class, timestamp) ==
    LET numeric == convert_to_numeric(value)
    IN  IF InInvalidStates(value) = "TypeError"
        THEN Outcome("none", <<>>, FALSE, "TypeError")
        ELSE IF InInvalidStates(value) = "yes"
        THEN Outcome("invalid_state", <<>>, FALSE, "none")
        ELSE IF stale_threshold # <<>> /\ timestamp < now - stale_threshold[1]
        THEN Outcome("stale", <<>>, FALSE, "none")
        ELSE IF numeric.raised # "none"
        THEN Outcome("none", <<>>, FALSE, numeric.raised)
        ELSE IF numeric.value = <<>>
        THEN Outcome("invalid_type", <<>>, FALSE, "none")
        ELSE IF ~is_valid_numeric(numeric.value[1])
        THEN Outcome("invalid_type", numeric.value, FALSE, "none")
        ELSE IF /\ validate_ranges
                /\ device_class # ""
                /\ ~is_in_valid_range(numeric.value[1], device_class)
        THEN Outcome("invalid_range", numeric.value, numeric.converted, "none")
        ELSE IF /\ track_changes_only
                /\ entity_id # ""
                /\ ~has_value_changed(entity_id, numeric.value[1], timestamp)
        THEN Outcome("unchanged", numeric.value, numeric.converted, "none")
        ELSE Outcome("valid", numeric.value, numeric.converted, "none")

\* whether the call got as far as _has_value_changed and stored the new value
StoresLastValue(outcome, entity_id) ==
    outcome.result = "valid" /\ track_changes_only /\ entity_id # ""

\* self._last_values after the call
LastValuesAfter(outcome, entity_id, timestamp) ==
    IF StoresLastValue(outcome, entity_id)
    THEN [k \in DOMAIN last_values \cup {entity_id} |->
             IF k = entity_id THEN <<outcome.value[1], timestamp>> ELSE last_values[k]]
    ELSE last_values

\* the statistics after one more call with the given outcome
StatsAdd(counters, outcome) ==
    LET counted == [counters EXCEPT !.total = @ + 1]
    IN  IF outcome.result = "none" THEN counted
        ELSE IF outcome.result = "valid"
        THEN [counted EXCEPT !.valid = @ + 1,
                             !.converted = IF outcome.converted THEN @ + 1 ELSE @]
        ELSE [counted EXCEPT ![outcome.result] = @ + 1]

\* self.validation_stats after the call
StatsAfter(outcome) == StatsAdd(validation_stats, outcome)

\* one call of validate_and_convert
Validate(value, entity_id, device_class, timestamp) ==
    /\ validation_stats.total < MaxValidations
    /\ LET outcome == validate_and_convert(value, entity_id, device_class, timestamp)
       IN  /\ last_values' = LastValuesAfter(outcome, entity_id, timestamp)
           /\ validation_stats' = StatsAfter(outcome)
           /\ validator_last' = [op |-> "validate", value |-> value,
                                 entity_id |-> entity_id, timestamp |-> timestamp,
                                 device_class |-> device_class,
                                 outcome |-> outcome, pre_last_values |-> last_values]
    /\ UNCHANGED <<now, stale_threshold, validate_ranges, track_changes_only>>

\* the clock advances by half a second
ValidatorTick ==
    /\ now < MaxValidatorTime
    /\ now' = now + 1
    /\ validator_last' = NoOp
    /\ UNCHANGED <<stale_threshold, validate_ranges, track_changes_only,
                   last_values, validation_stats>>

\* DataValidator.__init__ for one configuration
ValidatorConstructed(threshold, ranges, changes_only) ==
    /\ stale_threshold = threshold
    /\ validate_ranges = ranges
    /\ track_changes_only = changes_only
    /\ last_values = <<>>
    /\ validation_stats = [total |-> 0, valid |-> 0, converted |-> 0,
                           invalid_state |-> 0, invalid_type |-> 0,
                           invalid_range |-> 0, stale |-> 0, unchanged |-> 0]
    /\ validator_last = NoOp

\* the validator the entity listener constructs (entity_listener.py:82-86)
ValidatorIdle == ValidatorConstructed(<<600>>, TRUE, FALSE)

---------------------------------------------------------------------------
(* ClarifyEntityListener (entity_listener.py) *)

\* the raw values of state.state: Home Assistant states are strings
StateValues ==
    {Raw("string", "21", 0), Raw("string", "on", 0), Raw("string", "abc", 0),
     Raw("string", "nan", 0), Raw("string", "unavailable", 0)}

\* the raw values a tracked numeric attribute of a state carries
AttributeValues ==
    {Raw("number", "", 21), Raw("number", "", 150), Raw("none", "", 0),
     Raw("list", "", 0)}

\* the input id of a value: the main state uses the base input id, an
\* attribute gets its name as a suffix
DataInputId(suffix) == IF suffix = "" THEN "s1" ELSE "s2"

\* validate_attribute: the device class is inferred from the attribute name
\* when the entity has none
AttributeDeviceClass(device_class) ==
    IF device_class = "" THEN "temperature" ELSE device_class

\* the validator calls of _extract_and_validate_numeric_values for a state
\* with the given main value and, when attribute # <<>>, one tracked numeric
\* attribute "temperature": (suffix, outcome) pairs in call order.  The call
\* for the attribute is not made when the call for the main state raised.
Validations(state, attribute, device_class) ==
    LET main == validate_and_convert(state, "e1", device_class, now)
    IN  IF attribute = <<>> \/ main.raised # "none"
        THEN <<[suffix |-> "", outcome |-> main]>>
        ELSE <<[suffix |-> "", outcome |-> main],
               [suffix |-> "temperature",
                outcome |-> validate_and_convert(attribute[1], "e1.temperature",
                                                 AttributeDeviceClass(device_class),
                                                 now)]>>

\* a listener that keeps every result carrying a numeric value
Accepted_any_numeric(outcome) == outcome.raised = "none" /\ outcome.value # <<>>

\* `result.result == ValidationResult.VALID`
Accepted(outcome) == outcome.result = "valid"

\* validated_values: the (suffix, value) pairs of the accepted results
RECURSIVE ValidatedValues(_)
ValidatedValues(validations) ==
    IF validations = <<>> THEN <<>>
    ELSE (IF Accepted(Head(validations).outcome)
          THEN <<[suffix |-> Head(validations).suffix,
                  value |-> Head(validations).outcome.value[1].n]>>
          ELSE <<>>) \o ValidatedValues(Tail(validations))

\* the exception that left _extract_and_validate_numeric_values, or "none"
ValidationRaised(validations) == validations[Len(validations)].outcome.raised

\* self.validation_stats after the calls
RECURSIVE StatsAfterAll(_, _)
StatsAfterAll(counters, validations) ==
    IF validations = <<>> THEN counters
    ELSE StatsAfterAll(StatsAdd(counters, Head(validations).outcome), Tail(validations))

\* _async_process_state_change up to the loop over the values: the signal is
\* ensured, the state and its attribute are validated, and an event with no
\* valid value or with a validation that raised is ignored
StateChanged(state, attribute, device_class) ==
    /\ listener_pc = "idle"
    /\ events_processed + events_ignored < MaxEvents
    /\ LET validations == Validations(state, attribute, device_class)
           raised == ValidationRaised(validations)
           values == IF raised = "none" THEN ValidatedValues(validations) ELSE <<>>
           main == validations[1].outcome
       IN  /\ validation_stats' = StatsAfterAll(validation_stats, validations)
           /\ validator_last' =
                  [op |-> "validate",
                   value |-> IF Len(validations) = 1 THEN state ELSE attribute[1],
                   entity_id |-> IF Len(validations) = 1 THEN "e1" ELSE "e1.temperature",
                   timestamp |-> now,
                   outcome |-> validations[Len(validations)].outcome,
                   pre_last_values |-> last_values]
           /\ validation_failed' =
                  IF main.raised = "none" /\ main.result \notin {"valid", "invalid_state"}
                  THEN validation_failed + 1 ELSE validation_failed
           /\ pending' = values
           /\ listener_pc' = IF values = <<>> THEN "idle" ELSE "adding"
           /\ events_ignored' = IF values = <<>> THEN events_ignored + 1
                                ELSE events_ignored
           /\ listener_last' = [op |-> "state_changed", validations |-> validations,
                                values |-> values, added |-> <<>>, raised |-> raised]
    /\ UNCHANGED <<now, stale_threshold, validate_ranges, track_changes_only,
                   last_values, events_processed>>

\* one round of the loop: the next value is handed to add_data_point; an
\* exception of add_data_point ends the handler in its except branch
AddNextValue ==
    /\ listener_pc = "adding"
    /\ AddDataPoint(DataInputId(Head(pending).suffix), Head(pending).value)
    /\ LET raised == coord_last'.raised
           done == raised # "none" \/ Tail(pending) = <<>>
       IN  /\ pending' = IF done THEN <<>> ELSE Tail(pending)
           /\ listener_pc' = IF done THEN "idle" ELSE "adding"
           /\ events_processed' = IF raised = "none" /\ done THEN events_processed + 1
                                  ELSE events_processed
           /\ events_ignored' = IF raised # "none" THEN events_ignored + 1
                                ELSE events_ignored
           /\ listener_last' = [listener_last EXCEPT !.op = "add_value",
                                                     !.added = Append(@, Head(pending)),
                                                     !.raised = raised]
    /\ UNCHANGED validation_failed

\* the clock advances by half a second
ListenerTick ==
    /\ now < MaxValidatorTime
    /\ now' = now + 1
    /\ UNCHANGED <<buffer_vars, coord_vars, validator_vars, listener_vars>>

\* ClarifyEntityListener.__init__
ListenerConstructed ==
    /\ listener_pc = "idle"
    /\ pending = <<>>
    /\ events_processed = 0
    /\ events_ignored = 0
    /\ validation_failed = 0
    /\ listener_last = NoOp

---------------------------------------------------------------------------
(* IntegrationHealthMonitor (health_monitor.py) *)

HealthStatus == {"excellent", "good", "fair", "poor", "critical"}

\* history_size, the constructor's default
history_size == 100

\* HealthMetrics() as the monitor's constructor leaves it
InitHealthMetrics ==
    [api_calls_total |-> 0, api_calls_successful |-> 0, api_calls_failed |-> 0,
     transmissions_total |-> 0, transmissions_successful |-> 0,
     transmissions_failed |-> 0, data_points_sent |-> 0,
     consecutive_failures |-> 0, buffer_overflows |-> 0,
     last_successful_transmission |-> <<>>]

\* the deduction with the thresholds read as "at most" instead of "below"
RatePenalty_inclusive(successful, total) ==
    IF total = 0 THEN 0
    ELSE IF 100 * successful <= 50 * total THEN 30
    ELSE IF 100 * successful <= 80 * total THEN 20
    ELSE IF 100 * successful <= 95 * total THEN 10
    ELSE 0

\* the deduction for a success rate (successful / total) * 100, none when
\* there was no call
RatePenalty(successful, total) ==
    IF total = 0 THEN 0
    ELSE IF 100 * successful < 50 * total THEN 30
    ELSE IF 100 * successful < 80 * total THEN 20
    ELSE IF 100 * successful < 95 * total THEN 10
    ELSE 0

\* the deduction for consecutive failures
FailurePenalty(consecutive_failures) ==
    IF consecutive_failures >= 10 THEN 20
    ELSE IF consecutive_failures >= 5 THEN 15
    ELSE IF consecutive_failures >= 3 THEN 10
    ELSE 0

\* the deduction for buffer overflows
OverflowPenalty(buffer_overflows) ==
    IF buffer_overflows > 10 THEN 10
    ELSE IF buffer_overflows > 5 THEN 5
    ELSE 0

\* the deduction for the time since the last successful transmission; the
\* clock counts half seconds, 1800 s and 600 s are 3600 and 1200 of them
ActivityPenalty(last_successful_transmission, t) ==
    IF last_successful_transmission = <<>> THEN 0
    ELSE IF t - last_successful_transmission[1] > 3600 THEN 10
    ELSE IF t - last_successful_transmission[1] > 1200 THEN 5
    ELSE 0

\* the score get_health_status computes
HealthScore(m, t) ==
    100 - RatePenalty(m.api_calls_successful, m.api_calls_total)
        - RatePenalty(m.transmissions_successful, m.transmissions_total)
        - FailurePenalty(m.consecutive_failures)
        - OverflowPenalty(m.buffer_overflows)
        - ActivityPenalty(m.last_successful_transmission, t)

\* the status of a score
StatusOf(score) ==
    IF score >= 90 THEN "excellent"
    ELSE IF score >= 75 THEN "good"
    ELSE IF score >= 50 THEN "fair"
    ELSE IF score >= 25 THEN "poor"
    ELSE "critical"

\* get_health_status()
GetHealthStatus ==
    /\ health_last' = [op |-> "get_health_status",
                       score |-> HealthScore(health_metrics, now),
                       status |-> StatusOf(HealthScore(health_metrics, now))]
    /\ UNCHANGED <<now, health_metrics, api_call_history>>

\* record_transmission(success, data_points)
RecordTransmission(success, points) ==
    /\ health_metrics.transmissions_total < MaxRecords
    /\ health_metrics' =
           IF success
           THEN [health_metrics EXCEPT !.transmissions_total = @ + 1,
                                       !.transmissions_successful = @ + 1,
                                       !.data_points_sent = @ + points,
                                       !.last_successful_transmission = <<now>>]
           ELSE [health_metrics EXCEPT !.transmissions_total = @ + 1,
                                       !.transmissions_failed = @ + 1]
    /\ health_last' = [op |-> "record_transmission", success |-> success,
                       points |-> points, pre |-> health_metrics]
    /\ UNCHANGED <<now, api_call_history>>

\* a record_api_call that leaves consecutive_failures alone on a success
ApiCallRecorded_no_reset(m, success) ==
    IF success
    THEN [m EXCEPT !.api_calls_total = @ + 1,
                   !.api_calls_successful = @ + 1]
    ELSE [m EXCEPT !.api_calls_total = @ + 1,
                   !.api_calls_failed = @ + 1,
                   !.consecutive_failures = @ + 1]

\* record_api_call, lines 116-135: the counters after one more call
ApiCallRecorded(m, success) ==
    IF success
    THEN [m EXCEPT !.api_calls_total = @ + 1,
                   !.api_calls_successful = @ + 1,
                   !.consecutive_failures = 0]
    ELSE [m EXCEPT !.api_calls_total = @ + 1,
                   !.api_calls_failed = @ + 1,
                   !.consecutive_failures = @ + 1]

\* deque(maxlen=history_size).append
HistoryAppend(history, call) ==
    LET appended == Append(history, call)
    IN  IF Len(appended) > history_size THEN Tail(appended) ELSE appended

\* record_api_call(duration_ms, success)
RecordApiCall(success) ==
    /\ health_metrics.api_calls_total < MaxApiCalls
    /\ api_call_history' = HistoryAppend(api_call_history, success)
    /\ health_metrics' = ApiCallRecorded(health_metrics, success)
    /\ health_last' = [op |-> "record_api_call", success |-> success,
                       pre |-> health_metrics]
    /\ UNCHANGED now

\* reset_metrics()
ResetMetrics ==
    /\ health_metrics' = InitHealthMetrics
    /\ api_call_history' = <<>>
    /\ health_last' = [op |-> "reset_metrics", pre |-> health_metrics]
    /\ UNCHANGED now

\* IntegrationHealthMonitor.__init__
HealthConstructed ==
    /\ health_metrics = InitHealthMetrics
    /\ api_call_history = <<>>
    /\ health_last = NoOp

\* the metrics the record_* methods can have produced after MaxCalls API
\* calls and MaxCalls transmissions, or after none: a success resets
\* consecutive_failures and a successful transmission stamps its time
CallCounts ==
    {c \in {0, MaxCalls} \X (0..MaxCalls) : c[2] <= c[1]}

HealthMetricsOf(api, transmissions, consecutive_failures, buffer_overflows) ==
    [api_calls_total |-> api[1], api_calls_successful |-> api[2],
     api_calls_failed |-> api[1] - api[2],
     transmissions_total |-> transmissions[1],
     transmissions_successful |-> transmissions[2],
     transmissions_failed |-> transmissions[1] - transmissions[2],
     data_points_sent |-> 0,
     consecutive_failures |-> consecutive_failures,
     buffer_overflows |-> buffer_overflows,
     last_successful_transmission |-> IF transmissions[2] > 0 THEN <<0>> ELSE <<>>]

ReachableHealthMetrics ==
    {m \in {HealthMetricsOf(api, transmissions, consecutive_failures, buffer_overflows) :
                api \in CallCounts, transmissions \in CallCounts,
                consecutive_failures \in {0, 2, 3, 4, 5, 9, 10},
                buffer_overflows \in {0, 5, 6, 10, 11}} :
        /\ m.consecutive_failures <= m.api_calls_failed
        /\ m.api_calls_successful = 0 => m.consecutive_failures = m.api_calls_failed}

\* a call history that produces the given counters: the failures before the
\* last success, the successes, then the consecutive failures
HistoryOf(m) ==
    [i \in 1..m.api_calls_total |->
        /\ i > m.api_calls_failed - m.consecutive_failures
        /\ i <= m.api_calls_total - m.consecutive_failures]

\* the default manager, left alone by the specifications of other components
BufferIdle == BufferConstructed("hybrid", 300, 100, TRUE, "HIGH", 60, 600)

\* (strategy, priority_threshold) pairs; priority_immediate keeps its default
BufferConfigs ==
    ({"priority"} \X DataPriority) \cup ({"size", "time", "hybrid", "adaptive"} \X {"HIGH"})

\* time_interval: nothing ties it to the adaptive bounds, whose defaults the
\* coordinator keeps whatever batch interval it passes
TimeIntervals(strat) == IF strat = "adaptive" THEN {2, 5} ELSE {2}

BufferInit ==
    /\ now = 0
    /\ \E c \in BufferConfigs, limit \in 1..MaxSizeLimit :
           \E interval \in TimeIntervals(c[1]) :
               BufferConstructed(c[1], interval, limit, TRUE, c[2], 1, 4)

BufferNext ==
    \/ (\E priority \in DataPriority : AddEntry(priority))
           /\ UNCHANGED <<retry_vars, coord_vars, validator_vars, listener_vars, health_vars>>
    \/ (\E trigger \in FlushTrigger : GetFlushData(trigger))
           /\ UNCHANGED <<retry_vars, coord_vars, validator_vars, listener_vars, health_vars>>
    \/ BufferTick /\ UNCHANGED <<retry_vars, coord_vars, validator_vars, listener_vars, health_vars>>

\* the retry manager left alone
RetryIdle ==
    /\ max_attempts = 5
    /\ base_delay = 2
    /\ max_delay = 300
    /\ max_queue_size = 1000
    /\ retry_queue = <<>>
    /\ stats = InitStats
    /\ retry_pc = "idle"
    /\ entries_to_process = <<>>
    /\ cycle_now = 0
    /\ next_id = 0
    /\ sent = [d \in 1..MaxEntries |-> 0]
    /\ retry_result = ZeroResult
    /\ fate = [d \in 1..MaxEntries |-> "none"]
    /\ retry_last = NoOp

BufferSpecInit == BufferInit /\ RetryIdle /\ CoordConstructed /\ ValidatorIdle /\ ListenerConstructed /\ HealthConstructed

SpecBuffer == BufferSpecInit /\ [][BufferNext]_vars

RetryNext ==
    \/ (\E input \in AddInputs : AddRetryEntry(input[1], input[2])) /\ UNCHANGED <<buffer_vars, coord_vars, validator_vars, listener_vars, health_vars>>
    \/ ProcessEmptyQueue /\ UNCHANGED <<buffer_vars, coord_vars, validator_vars, listener_vars, health_vars>>
    \/ ProcessBegin /\ UNCHANGED <<buffer_vars, coord_vars, validator_vars, listener_vars, health_vars>>
    \/ (\E outcome \in {"success", "failure", "raise"},
            callback_outcome \in {"returns", "raises"} :
            SendReturns(outcome, callback_outcome))
           /\ UNCHANGED <<buffer_vars, coord_vars, validator_vars, listener_vars, health_vars>>
    \/ RetryTick /\ UNCHANGED <<buffer_vars, coord_vars, validator_vars, listener_vars, health_vars>>

RetrySpecInit == RetryInit /\ BufferIdle /\ CoordConstructed /\ ValidatorIdle /\ ListenerConstructed /\ HealthConstructed

SpecRetry == RetrySpecInit /\ [][RetryNext]_vars

\* the coordinator and the buffer manager it constructs (lines 63-67), driven
\* through the coordinator's public operations and timer callbacks
CoordInit ==
    /\ now = 0
    /\ \E strat \in BufferStrategy, limit \in 1..MaxSizeLimit :
           BufferConstructed(strat, 2, limit, TRUE, "HIGH", 60, 600)
    /\ CoordConstructed
    /\ RetryIdle
    /\ ValidatorIdle
    /\ ListenerConstructed
    /\ HealthConstructed

CoordNext ==
    \/ Start /\ UNCHANGED <<retry_vars, validator_vars, listener_vars, health_vars>>
    \/ Stop /\ UNCHANGED <<retry_vars, validator_vars, listener_vars, health_vars>>
    \/ (\E input_id \in Streams, value \in Values : AddDataPoint(input_id, value))
           /\ UNCHANGED <<retry_vars, validator_vars, listener_vars, health_vars>>
    \/ CheckBuffer /\ UNCHANGED <<retry_vars, validator_vars, listener_vars, health_vars>>
    \/ ManualFlush /\ UNCHANGED <<retry_vars, validator_vars, listener_vars, health_vars>>
    \/ CoordTick /\ UNCHANGED <<retry_vars, validator_vars, listener_vars, health_vars>>

SpecCoord == CoordInit /\ [][CoordNext]_vars

\* the point lists of one stream handed to _async_send_data
PointSeqs ==
    {<<>>, <<<<0, 10>>>>, <<<<1, 20>>>>, <<<<0, 10>>, <<1, 20>>>>,
     <<<<2, 20>>, <<0, 10>>>>, <<<<1, 10>>, <<1, 20>>>>}

\* the `data` arguments of _async_send_data
SendInputs == UNION {[S -> PointSeqs] : S \in SUBSET Streams}

SendInit ==
    /\ now = 0
    /\ BufferIdle
    /\ CoordConstructed
    /\ RetryIdle
    /\ ValidatorIdle
    /\ ListenerConstructed
    /\ HealthConstructed

SendNext ==
    \/ (\E data \in SendInputs, held \in BOOLEAN : SendData(data, held))
           /\ UNCHANGED <<validator_vars, listener_vars, health_vars>>
    \/ (\E outcome \in {"ok", "ClarifyConnectionError", "Exception"} :
           InsertReturns(outcome)) /\ UNCHANGED <<validator_vars, listener_vars, health_vars>>
    \/ SendTick /\ UNCHANGED <<validator_vars, listener_vars, health_vars>>

SpecSend == SendInit /\ [][SendNext]_vars

\* the validator alone, called with raw inputs of every kind

\* (stale_threshold, validate_ranges, track_changes_only)
ValidatorConfigs ==
    {<<<<>>, FALSE, TRUE>>, <<<<1>>, TRUE, TRUE>>, <<<<1>>, TRUE, FALSE>>}

\* timestamps of a sample: the current time or up to a second before it
SampleTimes == {t \in 0..now : now - t <= 2}

ValidatorInit ==
    /\ now = 0
    /\ \E config \in ValidatorConfigs :
           ValidatorConstructed(config[1], config[2], config[3])
    /\ BufferIdle
    /\ CoordConstructed
    /\ RetryIdle
    /\ ListenerConstructed
    /\ HealthConstructed

ValidatorNext ==
    \/ (\E value \in RawValues, entity_id \in {"", "e1"},
            device_class \in {"", "humidity"}, timestamp \in SampleTimes :
            Validate(value, entity_id, device_class, timestamp))
           /\ UNCHANGED <<retry_vars, buffer_vars, coord_vars, listener_vars, health_vars>>
    \/ ValidatorTick /\ UNCHANGED <<retry_vars, buffer_vars, coord_vars, listener_vars, health_vars>>

SpecValidator == ValidatorInit /\ [][ValidatorNext]_vars

\* the listener in front of its validator and a started coordinator
ListenerInit ==
    /\ now = 0
    /\ \E strat \in {"size", "hybrid"}, limit \in 1..MaxSizeLimit :
           BufferConstructed(strat, 2, limit, TRUE, "HIGH", 60, 600)
    /\ CoordConstructed
    /\ RetryIdle
    /\ ValidatorIdle
    /\ ListenerConstructed
    /\ HealthConstructed

ListenerNext ==
    \/ (\E state \in StateValues, attribute \in {<<>>} \cup {<<v>> : v \in AttributeValues},
            device_class \in {"", "humidity"} :
            StateChanged(state, attribute, device_class))
           /\ UNCHANGED <<retry_vars, buffer_vars, coord_vars, health_vars>>
    \/ AddNextValue /\ UNCHANGED <<retry_vars, validator_vars, health_vars>>
    \/ ListenerTick /\ UNCHANGED <<retry_vars, health_vars>>

SpecListener == ListenerInit /\ [][ListenerNext]_vars

\* the health monitor asked for its status in every state its counters and the
\* clock can be in around the thresholds of the score
HealthInit ==
    /\ now \in {0, 1200, 1201, 3600, 3601}
    /\ health_metrics \in ReachableHealthMetrics
    /\ api_call_history = HistoryOf(health_metrics)
    /\ health_last = NoOp
    /\ BufferIdle
    /\ CoordConstructed
    /\ RetryIdle
    /\ ValidatorIdle
    /\ ListenerConstructed

HealthNext ==
    \/ GetHealthStatus
           /\ UNCHANGED <<retry_vars, buffer_vars, coord_vars, validator_vars, listener_vars>>
    \/ (\E success \in BOOLEAN, points \in 0..2 : RecordTransmission(success, points))
           /\ UNCHANGED <<retry_vars, buffer_vars, coord_vars, validator_vars, listener_vars>>

SpecHealth == HealthInit /\ [][HealthNext]_vars

---------------------------------------------------------------------------
(* Claims about the retry manager, checked under SpecRetry *)

InQueue(d) == \E i \in 1..Len(retry_queue) : retry_queue[i].data = d

InProcess(d) == \E i \in 1..Len(entries_to_process) : entries_to_process[i].data = d

\* C3: in every reachable state, under any interleaving of add_retry_entry with
\* a process_retry_queue cycle, the retry queue holds at most max_queue_size
\* entries.
C3_QueueNeverExceedsCapacity == Len(retry_queue) <= max_queue_size

\* C4: when the queue holds max_queue_size entries, add_retry_entry evicts
\* exactly one entry, the one enqueued earliest among those queued (payloads
\* are numbered in the order add_retry_entry received them), increments
\* abandoned_entries by exactly 1 and admits the new entry, so the queue length
\* stays at max_queue_size.
C4_FullQueueEvictsOldest ==
    (retry_last.op = "add" /\ Len(retry_last.pre_queue) = max_queue_size) =>
        /\ Len(retry_last.evicted) = 1
        /\ \A j \in 1..Len(retry_last.pre_queue) :
               retry_last.evicted[1] <= retry_last.pre_queue[j]
        /\ stats.abandoned_entries = retry_last.pre_abandoned + 1
        /\ Len(retry_queue) = max_queue_size
        /\ retry_queue[Len(retry_queue)].data = retry_last.data

\* C5: with max_attempts = M >= 1, an entry whose sends all fail is sent exactly
\* M times: an entry that is still queued after a failed sends has been sent
\* exactly a < M times, no entry is ever sent more than M times, and an entry
\* abandoned for exhaustion was sent exactly M times, is counted in
\* abandoned_entries and is neither queued nor waiting to be sent.
C5_AbandonedAfterExactlyMaxAttempts ==
    /\ \A d \in 1..MaxEntries : sent[d] <= max_attempts
    /\ \A i \in 1..Len(retry_queue) :
           /\ retry_queue[i].attempt < max_attempts
           /\ sent[retry_queue[i].data] = retry_queue[i].attempt
    /\ \A d \in 1..MaxEntries :
           fate[d] = "exhausted" =>
               /\ sent[d] = max_attempts
               /\ ~InQueue(d)
               /\ ~InProcess(d)
    /\ stats.abandoned_entries =
           Cardinality({d \in 1..MaxEntries : fate[d] \in {"exhausted", "evicted"}})

C5_Witness ==
    /\ max_attempts >= 2
    /\ \E d \in 1..MaxEntries : fate[d] = "exhausted" /\ sent[d] = max_attempts

\* C6: for a fixed reason calculate_backoff_delay is non-decreasing in the
\* attempt number and never exceeds max_delay, for every attempt and reason;
\* and no queued entry waits longer than max_delay for its next attempt.
\* The function reads only base_delay and max_delay, which no action changes,
\* so its table is evaluated once per configuration, in the states before the
\* first add_retry_entry.
C6_BackoffMonotoneAndCapped ==
    /\ next_id = 0 =>
           \A attempt \in 0..MaxAttemptArg : \A reason \in RetryReason :
               /\ calculate_backoff_delay(attempt + 1, reason)
                      >= calculate_backoff_delay(attempt, reason)
               /\ calculate_backoff_delay(attempt, reason) <= 2 * max_delay
    /\ \A i \in 1..Len(retry_queue) :
           retry_queue[i].next_retry_time - retry_queue[i].last_attempt_time
               <= 2 * max_delay

\* a requeued entry whose recomputed delay hit the cap
C6_Witness ==
    \E i \in 1..Len(retry_queue) :
        /\ retry_queue[i].attempt >= 1
        /\ retry_queue[i].next_retry_time - retry_queue[i].last_attempt_time = 2 * max_delay

\* twice the reason's multiplier: 3, 1.5, 2 and 1
C7_TwiceMultiplier(reason) ==
    CASE reason = "rate_limit" -> 6
      [] reason = "server_error" -> 3
      [] reason = "authentication_error" -> 4
      [] OTHER -> 2

\* min(base_delay * 2^attempt * m(reason), max_delay), in half seconds
C7_Formula(attempt, reason) ==
    Min(base_delay * Pow2(attempt) * C7_TwiceMultiplier(reason), 2 * max_delay)

\* C7: calculate_backoff_delay(attempt, reason) equals
\* min(base_delay * 2^attempt * m(reason), max_delay) with m = 3, 1.5, 2, 1; a
\* newly enqueued entry gets next_retry_time = now + delay(0, reason); with
\* base_delay 2.0 a rate-limit failure's first delay is 6.0 seconds (12 half
\* seconds).  The table of the function is evaluated once per configuration,
\* in the states before the first add_retry_entry.
C7_BackoffFormula ==
    /\ next_id = 0 =>
           \A attempt \in 0..MaxAttemptArg : \A reason \in RetryReason :
               calculate_backoff_delay(attempt, reason) = C7_Formula(attempt, reason)
    /\ retry_last.op = "add" =>
           LET entry == retry_queue[Len(retry_queue)]
           IN  /\ entry.data = retry_last.data
               /\ entry.attempt = 0
               /\ entry.next_retry_time = now + C7_Formula(0, retry_last.reason)
               /\ (base_delay = 2 /\ max_delay >= 6 /\ retry_last.reason = "rate_limit")
                      => entry.next_retry_time - now = 12

C7_Witness ==
    /\ retry_last.op = "add"
    /\ retry_last.reason = "rate_limit"
    /\ base_delay = 2
    /\ retry_queue[Len(retry_queue)].next_retry_time = now + 12

---------------------------------------------------------------------------
(* Claims about the buffer manager, checked under SpecBuffer *)

Buffered == high_priority_buffer \o medium_priority_buffer \o low_priority_buffer


Occurrences(q, id) == Cardinality({i \in 1..Len(q) : q[i].id = id})

\* the add was the k-th since construction with no flush in between, so the
\* total size is k
SizeRun(op) ==
    /\ strategy = "size"
    /\ priority_immediate
    /\ priority_threshold = "HIGH"
    /\ buffer_last.op = op
    /\ metrics.flushes = (IF op = "flush" THEN 1 ELSE 0)

C9_FlushDrainsEverything ==
    buffer_last.op = "flush" =>
        LET before == buffer_last.pre_high \o buffer_last.pre_medium \o buffer_last.pre_low
            after == Returned(buffer_last.returned)
        IN  /\ high_priority_buffer = <<>>
            /\ medium_priority_buffer = <<>>
            /\ low_priority_buffer = <<>>
            /\ \A i \in 1..Len(before) : Occurrences(after, before[i].id) = 1
            /\ \A i \in 1..Len(after) : Occurrences(Buffered, after[i].id) = 0

\* C9 amended: that holds for every trigger other than Priority; for the
\* Priority trigger the high sub-buffer is empty and its entries are returned
\* exactly once, while the medium and low sub-buffers are left as they were.
\* In both cases no entry is both returned and still buffered.
C9_FlushDrainsItsSubBuffers ==
    buffer_last.op = "flush" =>
        LET before == buffer_last.pre_high \o buffer_last.pre_medium \o buffer_last.pre_low
            after == Returned(buffer_last.returned)
        IN  /\ high_priority_buffer = <<>>
            /\ \A i \in 1..Len(after) : Occurrences(Buffered, after[i].id) = 0
            /\ \A i \in 1..Len(after) : Occurrences(before, after[i].id) = 1
            /\ IF buffer_last.trigger = "priority"
               THEN /\ medium_priority_buffer = buffer_last.pre_medium
                    /\ low_priority_buffer = buffer_last.pre_low
                    /\ buffer_last.returned.high = buffer_last.pre_high
                    /\ buffer_last.returned.medium = <<>>
                    /\ buffer_last.returned.low = <<>>
               ELSE /\ medium_priority_buffer = <<>>
                    /\ low_priority_buffer = <<>>
                    /\ \A i \in 1..Len(before) : Occurrences(after, before[i].id) = 1

\* a Priority flush that left a medium entry buffered
C9_Witness ==
    /\ buffer_last.op = "flush"
    /\ buffer_last.trigger = "priority"
    /\ Len(buffer_last.returned.high) = 1
    /\ buffer_last.pre_medium # <<>>
    /\ medium_priority_buffer = buffer_last.pre_medium

\* C10: under the Priority policy, for any configured threshold, adding an
\* entry at or above the threshold returns the Priority trigger, and the flush
\* for that trigger returns the entry that caused it while every entry below
\* the threshold stays buffered and unchanged.
C10_PriorityFlushReturnsTrigger ==
    (strategy = "priority" /\ priority_immediate) =>
        /\ (buffer_last.op = "add"
              /\ PriorityValue(buffer_last.entry.priority) >= PriorityValue(priority_threshold))
               => buffer_last.trigger = "priority"
        /\ (buffer_last.op = "flush" /\ buffer_last.trigger = "priority"
              /\ buffer_last.after.op = "add" /\ buffer_last.after.trigger = "priority")
               => LET before == buffer_last.pre_high \o buffer_last.pre_medium
                                    \o buffer_last.pre_low
                  IN  /\ Occurrences(Returned(buffer_last.returned),
                                     buffer_last.after.entry.id) = 1
                      /\ \A i \in 1..Len(before) :
                             PriorityValue(before[i].priority)
                                 < PriorityValue(priority_threshold)
                             => Occurrences(Buffered, before[i].id) = 1

---------------------------------------------------------------------------
(* Claims about the coordinator, checked under SpecCoord and SpecSend *)

\* whether some dataframe of the sequence carries the entry's value at the
\* entry's stream and timestamp
InBatch(entry, dataframes) ==
    \E b \in DOMAIN dataframes :
        /\ entry.input_id \in DOMAIN dataframes[b].series
        /\ \E j \in DOMAIN dataframes[b].times :
               /\ dataframes[b].times[j] = IsoFormat(entry.timestamp)
               /\ dataframes[b].series[entry.input_id][j] = <<entry.value>>

\* C1: whenever a coordinator flush (from add_data_point, the periodic check,
\* manual_flush or stop) drains a non-empty buffer, every drained entry is in
\* the batch passed to the Transport send call.
C1_DrainedEntriesReachTransport ==
    (/\ coord_last.op \in {"add_data_point", "check_buffer", "manual_flush", "stop"}
     /\ coord_last.drained # <<>>)
        => \A i \in DOMAIN coord_last.drained :
               InBatch(coord_last.drained[i], coord_last.sent)

\* C2: when the Transport send fails for a batch, the failure counter grows by
\* exactly 1, the batch is enqueued in the retry manager, and the coordinator
\* does not keep the batch's data for a later flush of its own.
C2_FailedBatchGoesToRetryEngine ==
    (/\ coord_last.op = "send"
     /\ coord_last.outcome \in {"ClarifyConnectionError", "Exception"})
        => /\ failed_sends = coord_last.pre_failed + 1
           /\ Len(retry_queue) = coord_last.pre_retry + 1
           /\ data_buffer = coord_last.pre_buffer

\* the number of dataframes of the sequence that carry the entry
Deliveries(entry, dataframes) ==
    Cardinality({b \in DOMAIN dataframes : InBatch(entry, <<dataframes[b]>>)})

C14_AddDataPointNeverRaises ==
    coord_last.op = "add_data_point" => coord_last.raised = "none"

\* the timestamps of a `data` dict
Timestamps(data) == UNION {{data[k][i][1] : i \in DOMAIN data[k]} : k \in DOMAIN data}

\* the dataframe is the dense matrix of the data: its times are the ISO
\* strings of the ascending duplicate-free list ts of all timestamps, and each
\* stream has one series, as long as times, holding at j a value the stream
\* has at ts[j], or None when it has no sample there
IsDenseMatrix(dataframe, data) ==
    \E ts \in [DOMAIN dataframe.times -> Timestamps(data)] :
        /\ \A i, j \in DOMAIN ts : i < j => ts[i] < ts[j]
        /\ {ts[j] : j \in DOMAIN ts} = Timestamps(data)
        /\ \A j \in DOMAIN ts : dataframe.times[j] = IsoFormat(ts[j])
        /\ DOMAIN dataframe.series = DOMAIN data
        /\ \A k \in DOMAIN data :
               /\ Len(dataframe.series[k]) = Len(dataframe.times)
               /\ \A j \in DOMAIN ts :
                      LET hits == {i \in DOMAIN data[k] : data[k][i][1] = ts[j]}
                      IN  IF hits = {} THEN dataframe.series[k][j] = <<>>
                          ELSE \E i \in hits :
                                   dataframe.series[k][j] = <<data[k][i][2]>>

\* C15: _build_dataframe yields times equal to the ascending, duplicate-free
\* list of all timestamps of the streams and, per stream, a series as long as
\* times whose i-th element is the stream's value at times[i], or None when
\* the stream has no sample there; A at t0, t2 and B at t1 give
\* times = [t0, t1, t2], A = [v, None, v], B = [None, v, None].
C15_BuildDataframeIsDenseMatrix ==
    send_pc = "inserting" =>
        LET dataframe == transport_log[Len(transport_log)]
        IN  /\ dataframe = build_dataframe(send_data)
            /\ IsDenseMatrix(dataframe, send_data)
            /\ send_data = [k \in Streams |-> IF k = "s1" THEN <<<<2, 20>>, <<0, 10>>>>
                                              ELSE <<<<1, 20>>>>]
                   => /\ dataframe.times = <<IsoFormat(0), IsoFormat(1), IsoFormat(2)>>
                      /\ dataframe.series["s1"] = <<<<10>>, <<>>, <<20>>>>
                      /\ dataframe.series["s2"] = <<<<>>, <<20>>, <<>>>>

\* the two-stream, three-timestamp batch was built and handed to the Transport
C15_Witness ==
    /\ send_pc = "inserting"
    /\ DOMAIN send_data = Streams
    /\ Len(transport_log[Len(transport_log)].times) = 3
    /\ transport_log[Len(transport_log)].series["s2"] = <<<<>>, <<20>>, <<>>>>

---------------------------------------------------------------------------
(* Claims about the validator *)

\* C16: validate_and_convert is total: for every raw input (number, boolean,
\* string, None, list, mapping, ...) and every timestamp, the call returns
\* exactly one of the six outcomes Valid, InvalidState, InvalidType,
\* InvalidRange, Stale, Unchanged, and never throws.
C16_ValidateIsTotal ==
    validator_last.op = "validate" =>
        /\ validator_last.outcome.raised = "none"
        /\ validator_last.outcome.result \in
               {"valid", "invalid_state", "invalid_type", "invalid_range", "stale",
                "unchanged"}

\* a call in change-only mode that reached the change detection with a value
\* equal to the one stored for its entity
RepeatsLastValue ==
    /\ validator_last.op = "validate"
    /\ track_changes_only
    /\ validator_last.entity_id \in DOMAIN validator_last.pre_last_values
    /\ validator_last.outcome.result \in {"valid", "unchanged"}
    /\ validator_last.outcome.value[1] =
           validator_last.pre_last_values[validator_last.entity_id][1]

---------------------------------------------------------------------------
(* Claims about the entity listener *)

\* the values of the last event the listener handed, or is about to hand, to
\* add_data_point
Handed == listener_last.added \o pending

\* C18: every value the entity listener passes to add_data_point comes from a
\* validation whose result is Valid, and a value for which the validator
\* returned a rejection outcome never enters the buffer: the entry
\* add_data_point buffers is the handed value.
C18_OnlyValidValuesAreAdded ==
    listener_last.op \in {"state_changed", "add_value"} =>
        /\ \A i \in DOMAIN Handed :
               \E j \in DOMAIN listener_last.validations :
                   /\ listener_last.validations[j].suffix = Handed[i].suffix
                   /\ listener_last.validations[j].outcome.result = "valid"
                   /\ listener_last.validations[j].outcome.value[1].n = Handed[i].value
        /\ \A j \in DOMAIN listener_last.validations :
               listener_last.validations[j].outcome.result # "valid" =>
                   \A i \in DOMAIN Handed :
                       Handed[i].suffix # listener_last.validations[j].suffix
        /\ listener_last.op = "add_value" =>
               LET added == listener_last.added[Len(listener_last.added)]
               IN  /\ coord_last.op = "add_data_point"
                   /\ coord_last.entry.input_id = DataInputId(added.suffix)
                   /\ coord_last.entry.value = added.value

\* an event whose main state was valid and added while its attribute was
\* rejected with a numeric value
C18_Witness ==
    /\ listener_last.op = "add_value"
    /\ Len(listener_last.validations) = 2
    /\ listener_last.validations[2].outcome.result = "invalid_range"
    /\ listener_last.validations[2].outcome.value # <<>>
    /\ Len(listener_last.added) = 1
    /\ pending = <<>>

---------------------------------------------------------------------------
(* Claims about the adaptive strategy *)

\* the arrival rate of a window of timestamps, in entries per half second,
\* as a fraction; <<>> when the code computes none
WindowRate(timestamps) ==
    LET n == Len(timestamps)
        span == IF n < 2 THEN 0 ELSE timestamps[n] - timestamps[1]
    IN  IF n < 2 \/ span <= 0 THEN <<>> ELSE <<[num |-> n, den |-> span]>>

\* the windows of up to three arrival times within the model's clock range
Windows == UNION {[1..n -> 0..MaxBufferTime] : n \in 2..3}

\* C19: under the Adaptive strategy, in every reachable state the effective
\* flush interval used for the time check (_current_interval) lies in
\* [adaptive_min_interval, adaptive_max_interval], and a higher observed
\* arrival rate never yields a larger effective interval than a lower rate.
C19_AdaptiveIntervalWithinBounds ==
    strategy = "adaptive" =>
        /\ adaptive_min_interval <= current_interval
        /\ current_interval <= adaptive_max_interval
        /\ next_entry = 0 =>
               \A w1 \in Windows, w2 \in Windows :
                   (/\ WindowRate(w1) # <<>>
                    /\ WindowRate(w2) # <<>>
                    /\ WindowRate(w1)[1].num * WindowRate(w2)[1].den
                           >= WindowRate(w2)[1].num * WindowRate(w1)[1].den)
                   => AdaptiveInterval(w1, current_interval)
                          <= AdaptiveInterval(w2, current_interval)

---------------------------------------------------------------------------
(* Claims about the health monitor *)

\* the deduction the claim gives for a success rate in percent
ClaimedRateDeduction(successful, total) ==
    IF total = 0 THEN 0
    ELSE IF successful * 100 < 50 * total THEN 30
    ELSE IF successful * 100 < 80 * total THEN 20
    ELSE IF successful * 100 < 95 * total THEN 10
    ELSE 0

\* C20: get_health_status starts from 100, subtracts 30/20/10 for an API-call
\* success rate below 50%/80%/95%, the same for the transmission success rate,
\* 20/15/10 for consecutive failures >= 10/5/3, at most 10 for buffer
\* overflows and at most 10 for the time since the last success, so the score
\* lies in 0..100, and maps it to Excellent (>= 90), Good (>= 75), Fair
\* (>= 50), Poor (>= 25), otherwise Critical.
C20_HealthScoreAndBands ==
    health_last.op = "get_health_status" =>
        LET m == health_metrics
            rates == ClaimedRateDeduction(m.api_calls_successful, m.api_calls_total)
                     + ClaimedRateDeduction(m.transmissions_successful,
                                            m.transmissions_total)
            failures == IF m.consecutive_failures >= 10 THEN 20
                        ELSE IF m.consecutive_failures >= 5 THEN 15
                        ELSE IF m.consecutive_failures >= 3 THEN 10 ELSE 0
            rest == 100 - rates - failures - health_last.score
        IN  /\ health_last.score \in 0..100
            /\ rest \in 0..20
            /\ (m.buffer_overflows = 0 /\ m.last_successful_transmission = <<>>)
                   => rest = 0
            /\ health_last.status =
                   (IF health_last.score >= 90 THEN "excellent"
                    ELSE IF health_last.score >= 75 THEN "good"
                    ELSE IF health_last.score >= 50 THEN "fair"
                    ELSE IF health_last.score >= 25 THEN "poor"
                    ELSE "critical")

\* every deduction at its largest: the score is 0 and the status Critical
C20_Witness ==
    /\ health_last.op = "get_health_status"
    /\ health_last.score = 0
    /\ health_last.status = "critical"
    /\ health_metrics.consecutive_failures >= 10
    /\ health_metrics.buffer_overflows > 10

---------------------------------------------------------------------------
(* Claims about the coordinator's bookkeeping of sends *)

\* C21: after a successful Transport send the coordinator adds the number of
\* non-None values of the batch to total_data_points_sent, increments
\* successful_sends by exactly 1, and records the outcome to the Health
\* Monitor, whose transmission counters (total, successful, data points sent)
\* increase accordingly.  Every counter starts at 0.
C21_SuccessfulSendIsCountedAndRecorded ==
    (coord_last.op = "send" /\ coord_last.outcome = "ok") =>
        /\ successful_sends = 1
        /\ total_data_points_sent = data_points(build_dataframe(coord_last.data))
        /\ health_metrics.transmissions_total = successful_sends
        /\ health_metrics.transmissions_successful = successful_sends
        /\ health_metrics.data_points_sent = total_data_points_sent

---------------------------------------------------------------------------
(* Claims about a process_retry_queue cycle *)

\* C22: process_retry_queue never raises to its caller: a send function that
\* returns failure or throws, a success callback that throws, and an entry
\* that exhausts max_attempts each end in a requeue or a counted abandonment
\* (a success in a count of successes), and the cycle goes on to the
\* remaining ready entries.
C22_CycleNeverRaises ==
    retry_last.op = "send_returns" =>
        /\ retry_last.raised = "none"
        /\ retry_last.outcome # "success" =>
               /\ retry_last.requeued # retry_last.abandoned
               /\ retry_last.requeued =>
                      /\ retry_queue # <<>>
                      /\ retry_queue[Len(retry_queue)].data = retry_last.data
                      /\ stats.abandoned_entries = retry_last.pre_stats.abandoned_entries
               /\ retry_last.abandoned =>
                      /\ retry_last.data \notin {retry_queue[i].data : i \in DOMAIN retry_queue}
                      /\ stats.abandoned_entries =
                             retry_last.pre_stats.abandoned_entries + 1
                      /\ stats.failed_retries = retry_last.pre_stats.failed_retries + 1
        /\ retry_last.outcome = "success" =>
               stats.successful_retries = retry_last.pre_stats.successful_retries + 1
        /\ Ids(entries_to_process) = retry_last.remaining
        /\ retry_pc = (IF retry_last.remaining = <<>> THEN "idle" ELSE "sending")

\* a success callback that threw while another ready entry was waiting
C22_Witness ==
    /\ retry_last.op = "send_returns"
    /\ retry_last.outcome = "success"
    /\ retry_last.callback_outcome = "raises"
    /\ retry_last.remaining # <<>>
    /\ retry_pc = "sending"

RECURSIVE InOrder(_, _)
InOrder(p, q) ==
    IF p = <<>> THEN TRUE
    ELSE IF q = <<>> THEN FALSE
    ELSE IF Head(p) = Head(q) THEN InOrder(Tail(p), Tail(q))
    ELSE InOrder(p, Tail(q))

\* the entries of the queue a cycle started with that were not ready then
WaitingAtStart(entries, t) ==
    SelectSeq(entries, LAMBDA e : e.next_retry_time > t)

\* C25: process_retry_queue sends an entry only if its next_retry_time is at or
\* before the time the cycle started; entries not yet ready are never sent in
\* that cycle and remain queued in their original relative order, and the
\* ready entries are sent in queue (FIFO) order.
C25_OnlyReadyEntriesAreSentInOrder ==
    /\ retry_last.op = "process_begin" =>
           /\ \A i \in DOMAIN entries_to_process :
                  entries_to_process[i].next_retry_time <= now
           /\ retry_queue = WaitingAtStart(retry_last.pre_entries, now)
           /\ InOrder(Ids(entries_to_process), retry_last.pre_queue)
           /\ InOrder(Ids(retry_queue), retry_last.pre_queue)
           /\ Len(entries_to_process) + Len(retry_queue) = Len(retry_last.pre_queue)
           /\ \A i \in DOMAIN retry_queue :
                  sent[retry_queue[i].data] = retry_queue[i].attempt
    /\ retry_pc = "sending" =>
           /\ \A i \in DOMAIN entries_to_process :
                  entries_to_process[i].next_retry_time <= cycle_now
           /\ \A i \in DOMAIN retry_queue :
                  /\ retry_queue[i].next_retry_time > cycle_now
                  /\ sent[retry_queue[i].data] = retry_queue[i].attempt
    /\ (retry_last.op = "send_returns" /\ retry_last.remaining # <<>>) =>
           /\ Ids(entries_to_process) = retry_last.remaining
           /\ sent[Head(entries_to_process).data] > 0

\* a cycle that found a ready entry in front of and behind a waiting one
C25_Witness ==
    /\ retry_last.op = "process_begin"
    /\ Len(entries_to_process) >= 1
    /\ Len(retry_queue) >= 1
    /\ \E i, j \in DOMAIN retry_last.pre_queue :
           /\ i < j
           /\ retry_last.pre_queue[i] = retry_queue[1].data
           /\ retry_last.pre_queue[j] = entries_to_process[1].data

\* C26: in one process_retry_queue cycle the send function is invoked exactly
\* once for each ready entry (every send an entry has had is one counted
\* attempt, plus the one in flight); on success the entry is discarded (it is
\* not in the queue afterwards), successful_retries increases by 1, and the
\* entry's optional success callback is invoked exactly once.
C26_OneSendPerReadyEntry ==
    /\ retry_pc = "sending" =>
           /\ sent[Head(entries_to_process).data] = Head(entries_to_process).attempt + 1
           /\ \A i \in 2..Len(entries_to_process) :
                  sent[entries_to_process[i].data] = entries_to_process[i].attempt
    /\ retry_last.op = "send_returns" =>
           /\ sent[retry_last.data] = retry_last.attempt + 1
           /\ retry_last.data \notin {entries_to_process[i].data :
                                         i \in DOMAIN entries_to_process}
           /\ retry_last.callback_calls =
                  (IF retry_last.outcome = "success" /\ retry_last.has_callback
                   THEN 1 ELSE 0)
           /\ retry_last.outcome = "success" =>
                  /\ retry_last.data \notin {retry_queue[i].data : i \in DOMAIN retry_queue}
                  /\ fate[retry_last.data] = "delivered"
                  /\ stats.successful_retries =
                         retry_last.pre_stats.successful_retries + 1
                  /\ retry_result.successful >= 1

\* the second ready entry of a cycle succeeded and its callback was called
C26_Witness ==
    /\ retry_last.op = "send_returns"
    /\ retry_last.outcome = "success"
    /\ retry_last.has_callback
    /\ retry_last.callback_calls = 1
    /\ retry_result.processed >= 2
    /\ retry_last.data \notin {retry_queue[i].data : i \in DOMAIN retry_queue}

\* the outcome of _async_flush_buffer that does not depend on the trigger's
\* name: what was drained, what reached _async_send_data, what was raised
FlushPath(f) == [drained |-> f.drained, sent |-> f.sent, raised |-> f.raised]

C27_UnifiedBufferOutsidePriority ==
    strategy # "priority" =>
        /\ buffer_last.op = "add" => buffer_last.trigger # "priority"
        /\ buffer_last.op = "flush" => get_total_buffer_size = 0

\* C28: under the adaptive strategy an add_entry that brings the total
\* buffered count to size_limit or more returns the adaptive or the size_limit
\* trigger, however many arrival timestamps the sliding window holds.
C28_AdaptiveSizeFallback ==
    (/\ strategy = "adaptive"
     /\ buffer_last.op = "add"
     /\ buffer_last.size >= size_limit)
        => buffer_last.trigger \in {"adaptive", "size_limit"}

\* C29: under the hybrid strategy add_entry returns time_interval whenever the
\* time since the last flush is at least the interval (also when the size
\* limit is reached), size_limit when only the size limit is reached, and no
\* trigger when neither holds.
C29_HybridTimeBeforeSize ==
    (strategy = "hybrid" /\ buffer_last.op = "add")
        => buffer_last.trigger =
               (IF now - last_flush_time >= 2 * time_interval THEN "time_interval"
                ELSE IF buffer_last.size >= size_limit THEN "size_limit"
                ELSE NoTrigger)
\* the checks of the last validation taken one by one, each on its own
IsSentinel == InInvalidStates(validator_last.value) = "yes"

IsStale ==
    /\ stale_threshold # <<>>
    /\ validator_last.timestamp < now - stale_threshold[1]

IsNumeric ==
    /\ convert_to_numeric(validator_last.value).raised = "none"
    /\ convert_to_numeric(validator_last.value).value # <<>>

IsFinite == IsNumeric /\ is_valid_numeric(convert_to_numeric(validator_last.value).value[1])

IsOutOfRange ==
    /\ IsFinite
    /\ validate_ranges
    /\ validator_last.device_class # ""
    /\ ~is_in_valid_range(convert_to_numeric(validator_last.value).value[1],
                          validator_last.device_class)

RepeatsAccepted ==
    /\ IsFinite
    /\ track_changes_only
    /\ validator_last.entity_id \in DOMAIN validator_last.pre_last_values
    /\ validator_last.pre_last_values[validator_last.entity_id][1]
           = convert_to_numeric(validator_last.value).value[1]
    /\ validator_last.timestamp
           <= validator_last.pre_last_values[validator_last.entity_id][2]

\* C30: validate_and_convert applies its checks in the order sentinel state,
\* staleness, numeric coercion, finiteness, range, change detection and
\* returns at the first that rejects: a sentinel value is invalid_state also
\* when its timestamp is stale, a stale value is stale and not invalid_type
\* also when it is not numeric, and an out-of-range value is invalid_range
\* also when it repeats the last accepted value, and leaves that value as it was.
C30_ChecksInFixedOrder ==
    (validator_last.op = "validate" /\ validator_last.outcome.raised = "none")
        => LET result == validator_last.outcome.result
           IN  /\ IsSentinel => result = "invalid_state"
               /\ (~IsSentinel /\ IsStale) => result = "stale"
               /\ (~IsSentinel /\ ~IsStale /\ ~IsFinite) => result = "invalid_type"
               /\ (~IsSentinel /\ ~IsStale /\ IsOutOfRange)
                      => /\ result = "invalid_range"
                         /\ last_values = validator_last.pre_last_values
               /\ (~IsSentinel /\ ~IsStale /\ IsFinite /\ ~IsOutOfRange)
                      => result \in {"unchanged", "valid"}
               /\ result = "unchanged" => RepeatsAccepted

\* in change-only mode an out-of-range value that repeats the last accepted
\* value, with a timestamp that is not newer, was rejected for its range
C30_Witness ==
    /\ validator_last.op = "validate"
    /\ validator_last.outcome.result = "invalid_range"
    /\ RepeatsAccepted

\* the half seconds since the last successful transmission, counted from the
\* monitor's start (time 0) when there was none
SinceLastSuccess ==
    IF health_metrics.last_successful_transmission = <<>> THEN now
    ELSE now - health_metrics.last_successful_transmission[1]

\* C31: in every monitor state in which transmissions were recorded, also one
\* with failed transmissions only, the score is reduced by 10 when no
\* transmission succeeded within the last 30 minutes and by 5 when none
\* succeeded within the last 10 minutes.
C31_NoRecentSuccessIsDeducted ==
    (/\ health_last.op = "get_health_status"
     /\ health_metrics.transmissions_total > 0)
        => LET m == health_metrics
               others == RatePenalty(m.api_calls_successful, m.api_calls_total)
                         + RatePenalty(m.transmissions_successful, m.transmissions_total)
                         + FailurePenalty(m.consecutive_failures)
                         + OverflowPenalty(m.buffer_overflows)
           IN  100 - others - health_last.score =
                   (IF SinceLastSuccess > 3600 THEN 10
                    ELSE IF SinceLastSuccess > 1200 THEN 5
                    ELSE 0)

---------------------------------------------------------------------------
(* retry_manager.py: the two failure classifiers *)

\* the keywords the two classifiers look for in str(error).lower()
Keywords ==
    {"network", "connection", "connect", "resolve", "timeout", "timed out",
     "rate limit", "too many requests", "429", "500", "502", "503", "504",
     "server error", "auth", "unauthorized", "401", "403", "forbidden",
     "credentials", "400", "404", "422"}

\* `keyword in error_msg` is a substring test: a message that holds
\* "connection" holds "connect", one that holds "unauthorized" holds "auth"
Substrings(found) ==
    found \cup (IF "connection" \in found THEN {"connect"} ELSE {})
          \cup (IF "unauthorized" \in found THEN {"auth"} ELSE {})

\* the lowered error messages, told apart by the keywords found in them, with
\* at most n keywords put together
RECURSIVE MessagesUpTo(_)
MessagesUpTo(n) ==
    IF n = 0 THEN {{}}
    ELSE LET shorter == MessagesUpTo(n - 1)
         IN  shorter \cup {Substrings(m \cup {k}) : m \in shorter, k \in Keywords}

ErrorMessages == MessagesUpTo(MaxKeywords)

\* any(keyword in error_msg for keyword in keywords)
AnyIn(error_msg, keywords) == error_msg \cap keywords # {}

\* ExponentialBackoffRetryManager.classify_error(error)
classify_error(error_msg) ==
    IF AnyIn(error_msg, {"network", "connection", "connect", "resolve"})
    THEN "network_error"
    ELSE IF AnyIn(error_msg, {"timeout", "timed out"}) THEN "timeout"
    ELSE IF AnyIn(error_msg, {"rate limit", "too many requests", "429"})
    THEN "rate_limit"
    ELSE IF AnyIn(error_msg, {"500", "502", "503", "504", "server error"})
    THEN "server_error"
    ELSE IF AnyIn(error_msg, {"auth", "unauthorized", "401", "403", "forbidden"})
    THEN "authentication_error"
    ELSE "unknown"

\* determine_retry_strategy(error): (should_retry, retry_reason)
determine_retry_strategy(error_msg) ==
    IF AnyIn(error_msg, {"network", "connection", "timeout", "timed out"})
    THEN <<TRUE, "network_error">>
    ELSE IF AnyIn(error_msg, {"rate limit", "too many requests", "429"})
    THEN <<TRUE, "rate_limit">>
    ELSE IF AnyIn(error_msg, {"500", "502", "503", "504", "server error"})
    THEN <<TRUE, "server_error">>
    ELSE IF AnyIn(error_msg, {"unauthorized", "401", "forbidden", "403", "credentials"})
    THEN <<FALSE, "authentication_error">>
    ELSE IF AnyIn(error_msg, {"400", "404", "422"})
    THEN <<FALSE, "unknown">>
    ELSE <<TRUE, "unknown">>

\* a caller classifies an error with the manager's method
ClassifyError(error_msg) ==
    /\ retry_last' = [op |-> "classify_error", error_msg |-> error_msg,
                      reason |-> classify_error(error_msg)]
    /\ UNCHANGED <<now, max_attempts, base_delay, max_delay, max_queue_size,
                   retry_queue, stats, retry_pc, entries_to_process, cycle_now,
                   next_id, sent, retry_result, fate>>

\* a caller classifies an error with the module's function
DetermineRetryStrategy(error_msg) ==
    /\ retry_last' = [op |-> "determine_retry_strategy", error_msg |-> error_msg,
                      should_retry |-> determine_retry_strategy(error_msg)[1],
                      reason |-> determine_retry_strategy(error_msg)[2]]
    /\ UNCHANGED <<now, max_attempts, base_delay, max_delay, max_queue_size,
                   retry_queue, stats, retry_pc, entries_to_process, cycle_now,
                   next_id, sent, retry_result, fate>>

ClassifyNext ==
    \/ (\E error_msg \in ErrorMessages : ClassifyError(error_msg))
           /\ UNCHANGED <<buffer_vars, coord_vars, validator_vars, listener_vars, health_vars>>
    \/ (\E error_msg \in ErrorMessages : DetermineRetryStrategy(error_msg))
           /\ UNCHANGED <<buffer_vars, coord_vars, validator_vars, listener_vars, health_vars>>

ClassifySpecInit == now = 0 /\ RetryIdle /\ BufferIdle /\ CoordConstructed /\ ValidatorIdle /\ ListenerConstructed /\ HealthConstructed

SpecClassify == ClassifySpecInit /\ [][ClassifyNext]_vars

\* C32: determine_retry_strategy flags an error non-retryable exactly when its
\* message carries an authentication marker (401, 403, unauthorized,
\* forbidden, credentials) or an invalid-request marker (400, 404, 422), and
\* retryable otherwise, for any combination of markers in the message.
C32_NonRetryableIffAuthOrInvalidRequest ==
    retry_last.op = "determine_retry_strategy" =>
        (~retry_last.should_retry
            <=> AnyIn(retry_last.error_msg,
                      {"401", "403", "unauthorized", "forbidden", "credentials",
                       "400", "404", "422"}))

\* C33: for every error the reason returned by determine_retry_strategy is the
\* reason returned by classify_error, so the backoff delay of an entry does not
\* depend on the classifier that was used.
C33_ClassifiersAgree ==
    retry_last.op = "determine_retry_strategy" =>
        /\ retry_last.reason = classify_error(retry_last.error_msg)
        /\ \A attempt \in 0..MaxAttemptArg :
               calculate_backoff_delay(attempt, retry_last.reason)
                   = calculate_backoff_delay(attempt, classify_error(retry_last.error_msg))

---------------------------------------------------------------------------
(* The send path under fairness: a started async_insert_dataframe call comes
   back, with a result or an exception, and the event loop resumes
   _async_send_data *)

SpecSendFair ==
    /\ SendInit
    /\ [][SendNext]_vars
    /\ WF_vars((\E outcome \in {"ok", "ClarifyConnectionError", "Exception"} :
                    InsertReturns(outcome))
                   /\ UNCHANGED <<validator_vars, listener_vars, health_vars>>)

---------------------------------------------------------------------------
(* The buffer manager driven by the coordinator's timers, under fairness: the
   periodic check keeps being called and the clock keeps advancing *)

\* _async_check_buffer seen from the manager: _should_flush() and, when it
\* answers with a trigger, get_flush_data(trigger)
PeriodicCheck ==
    LET trigger == should_flush(<<>>, get_total_buffer_size, entry_timestamps, now)
        mtr == [metrics EXCEPT
                   !.data_rate = IF ReachesAdaptive(<<>>)
                                 THEN AdaptiveRate(entry_timestamps, @) ELSE @]
        r == FlushResult(high_priority_buffer, medium_priority_buffer,
                         low_priority_buffer, mtr, trigger)
    IN  /\ current_interval' = IF ReachesAdaptive(<<>>)
                               THEN AdaptiveInterval(entry_timestamps, current_interval)
                               ELSE current_interval
        /\ IF trigger # NoTrigger
           THEN /\ high_priority_buffer' = r.high
                /\ medium_priority_buffer' = r.medium
                /\ low_priority_buffer' = r.low
                /\ metrics' = r.metrics
                /\ last_flush_time' = now
                /\ buffer_last' = [op |-> "periodic_check", trigger |-> trigger,
                                   returned |-> Returned(r.data)]
           ELSE /\ metrics' = mtr
                /\ buffer_last' = [op |-> "periodic_check", trigger |-> NoTrigger,
                                   returned |-> <<>>]
                /\ UNCHANGED <<high_priority_buffer, medium_priority_buffer,
                               low_priority_buffer, last_flush_time>>
        /\ UNCHANGED <<now, strategy, time_interval, size_limit, priority_immediate,
                       priority_threshold, adaptive_min_interval,
                       adaptive_max_interval, entry_timestamps, next_entry>>

\* add_data_point seen from the manager: add_entry(entry) and, when it answers
\* with a trigger, get_flush_data(trigger)
AddThenFlush(priority) ==
    /\ next_entry < MaxBufferEntries
    /\ LET entry == BufferEntry(next_entry + 1, "s1", next_entry + 1, now, priority)
           a == AddResult(entry)
           r == FlushResult(a.high, a.medium, a.low, a.metrics, a.trigger)
       IN  /\ IF a.trigger # NoTrigger
              THEN /\ high_priority_buffer' = r.high
                   /\ medium_priority_buffer' = r.medium
                   /\ low_priority_buffer' = r.low
                   /\ metrics' = r.metrics
                   /\ last_flush_time' = now
              ELSE /\ high_priority_buffer' = a.high
                   /\ medium_priority_buffer' = a.medium
                   /\ low_priority_buffer' = a.low
                   /\ metrics' = a.metrics
                   /\ last_flush_time' = last_flush_time
           /\ entry_timestamps' = a.timestamps
           /\ current_interval' = a.interval
           /\ buffer_last' = [op |-> "add_then_flush", entry |-> entry,
                              trigger |-> a.trigger,
                              returned |-> IF a.trigger # NoTrigger
                                           THEN Returned(r.data) ELSE <<>>]
    /\ next_entry' = next_entry + 1
    /\ UNCHANGED <<now, strategy, time_interval, size_limit, priority_immediate,
                   priority_threshold, adaptive_min_interval, adaptive_max_interval>>

BufferFairNext ==
    \/ (\E priority \in DataPriority : AddThenFlush(priority))
           /\ UNCHANGED <<retry_vars, coord_vars, validator_vars, listener_vars, health_vars>>
    \/ PeriodicCheck
           /\ UNCHANGED <<retry_vars, coord_vars, validator_vars, listener_vars, health_vars>>
    \/ BufferTick /\ UNCHANGED <<retry_vars, coord_vars, validator_vars, listener_vars, health_vars>>

SpecBufferFair ==
    /\ BufferSpecInit
    /\ [][BufferFairNext]_vars
    /\ WF_vars(PeriodicCheck /\ UNCHANGED <<retry_vars, coord_vars, validator_vars,
                                            listener_vars, health_vars>>)
    /\ WF_vars(BufferTick /\ UNCHANGED <<retry_vars, coord_vars, validator_vars,
                                         listener_vars, health_vars>>)

\* the entry with this id is in one of the sub-buffers
IsBuffered(id) == \E i \in DOMAIN Buffered : Buffered[i].id = id

\* the model's clock has reached its bound although, with the clock running
\* on, a later periodic check would answer with a trigger
ClockBoundHidesFlush ==
    /\ now + 2 * time_interval > MaxBufferTime
    /\ \E t \in now..(now + 2 * (time_interval + adaptive_max_interval)) :
           should_flush(<<>>, get_total_buffer_size, entry_timestamps, t) # NoTrigger

\* C35: under every strategy, with the periodic check running and time
\* advancing, every entry added to the manager is eventually returned by a
\* get_flush_data call; no entry stays buffered forever.
C35_EveryEntryEventuallyFlushed ==
    \A id \in 1..MaxBufferEntries :
        IsBuffered(id) ~> (~IsBuffered(id) \/ ClockBoundHidesFlush)

---------------------------------------------------------------------------
(* The retry manager whose replay task can be cancelled *)

\* The task running process_retry_queue is cancelled while it awaits
\* send_callback (line 260): CancelledError is not an Exception, so neither
\* `except Exception` nor the lines after the loop run; the entry in flight
\* and the ready entries after it were taken out of the queue at lines 237-243
\* and are in the local list only.
CancelCycle ==
    /\ retry_pc = "sending"
    /\ retry_pc' = "idle"
    /\ entries_to_process' = <<>>
    /\ cycle_now' = 0
    /\ fate' = [d \in 1..MaxEntries |->
                   IF \E i \in DOMAIN entries_to_process : entries_to_process[i].data = d
                   THEN "dropped" ELSE fate[d]]
    /\ retry_last' = [op |-> "cancelled", dropped |-> Ids(entries_to_process),
                      pre_stats |-> stats]
    /\ UNCHANGED <<now, max_attempts, base_delay, max_delay, max_queue_size,
                   retry_queue, stats, next_id, sent, retry_result>>

RetryCancelNext ==
    \/ (\E input \in AddInputs : AddRetryEntry(input[1], input[2])) /\ UNCHANGED <<buffer_vars, coord_vars, validator_vars, listener_vars, health_vars>>
    \/ ProcessEmptyQueue /\ UNCHANGED <<buffer_vars, coord_vars, validator_vars, listener_vars, health_vars>>
    \/ ProcessBegin /\ UNCHANGED <<buffer_vars, coord_vars, validator_vars, listener_vars, health_vars>>
    \/ (\E outcome \in {"success", "failure", "raise"},
            callback_outcome \in {"returns", "raises"} :
            SendReturns(outcome, callback_outcome))
           /\ UNCHANGED <<buffer_vars, coord_vars, validator_vars, listener_vars, health_vars>>
    \/ CancelCycle /\ UNCHANGED <<buffer_vars, coord_vars, validator_vars, listener_vars, health_vars>>
    \/ RetryTick /\ UNCHANGED <<buffer_vars, coord_vars, validator_vars, listener_vars, health_vars>>

SpecRetryCancel == RetrySpecInit /\ [][RetryCancelNext]_vars

\* C36: whenever no process_retry_queue cycle is in progress, the last one
\* having completed or having been cancelled while it awaited a send,
\* total_retries = successful_retries + abandoned_entries + the queue's
\* length: every enqueued batch is queued, delivered or counted as abandoned.
C36_RetryAccountingIsConservative ==
    retry_pc = "idle" =>
        stats.total_retries
            = stats.successful_retries + stats.abandoned_entries + Len(retry_queue)

----------------------------------------------------------------------------
(* Buffer accounting *)

\* the sum of the per-trigger flush counts
FlushTriggerSum ==
    metrics.flush_triggers["time_interval"] + metrics.flush_triggers["size_limit"]
    + metrics.flush_triggers["priority"] + metrics.flush_triggers["manual"]
    + metrics.flush_triggers["shutdown"] + metrics.flush_triggers["adaptive"]

\* C37: buffer accounting is conservative. After any sequence of add_entry and
\* get_flush_data calls, total_entries (the number of add_entry calls) equals the
\* number of entries returned by all get_flush_data calls so far (the numerator
\* the running average accumulates) plus the current total buffer size; no
\* entry is held twice in the sub-buffers; a get_flush_data call puts every
\* entry that was buffered before it in exactly one place, the returned dict or
\* a sub-buffer; and flushes equals the sum of the per-trigger flush counts.
C37_BufferAccountingIsConservative ==
    /\ metrics.total_entries = next_entry
    /\ metrics.total_entries = metrics.avg_buffer_size.num + get_total_buffer_size
    /\ \A id \in 1..MaxBufferEntries : Occurrences(Buffered, id) <= 1
    /\ metrics.flushes = FlushTriggerSum
    /\ buffer_last.op = "flush" =>
           \A id \in 1..MaxBufferEntries :
               Occurrences(Returned(buffer_last.returned), id) + Occurrences(Buffered, id)
                   = Occurrences(buffer_last.pre_high \o buffer_last.pre_medium
                                     \o buffer_last.pre_low, id)

\* a priority flush has returned the high sub-buffer and left an entry behind
C37_Witness ==
    /\ buffer_last.op = "flush"
    /\ buffer_last.trigger = "priority"
    /\ Len(Returned(buffer_last.returned)) >= 1
    /\ get_total_buffer_size >= 1
    /\ metrics.total_entries = 2

----------------------------------------------------------------------------
(* Batch assembly *)

\* the number of (timestamp, value) points over all streams of a drained input
RECURSIVE PointCount(_, _)
PointCount(data, keys) ==
    IF keys = {} THEN 0
    ELSE LET k == CHOOSE x \in keys : TRUE
         IN  Len(data[k]) + PointCount(data, keys \ {k})

\* the point (ts, value) of stream k is at that stream's position for ts
FoundIn(dataframe, k, ts, value) ==
    \E j \in DOMAIN dataframe.times :
        /\ dataframe.times[j] = IsoFormat(ts)
        /\ dataframe.series[k][j] = <<value>>

\* C38: batch assembly loses no point. For the input handed to
\* _async_send_data, the number of non-None values in the batch given to the
\* transport equals the number of points of the input, and every (stream,
\* timestamp, value) of the input is found at that stream's position for that
\* timestamp, also when one stream has two points with the same timestamp.
C38_BatchAssemblyLosesNoPoint ==
    send_pc = "inserting" =>
        LET dataframe == transport_log[Len(transport_log)]
        IN  /\ data_points(dataframe) = PointCount(send_data, DOMAIN send_data)
            /\ \A k \in DOMAIN send_data :
                   \A i \in DOMAIN send_data[k] :
                       FoundIn(dataframe, k, send_data[k][i][1], send_data[k][i][2])

----------------------------------------------------------------------------
(* Validator accounting *)

\* C39: the validator's counters stay consistent after any sequence of
\* validate_and_convert calls: total is the sum of the six outcome counters
\* (valid, invalid_state, invalid_type, invalid_range, stale, unchanged), so
\* every call incremented exactly one of them, and converted <= valid.
C39_ValidatorCountersConsistent ==
    /\ validation_stats.total =
           validation_stats.valid + validation_stats.invalid_state
           + validation_stats.invalid_type + validation_stats.invalid_range
           + validation_stats.stale + validation_stats.unchanged
    /\ validation_stats.converted <= validation_stats.valid

----------------------------------------------------------------------------
(* Health Monitor call accounting *)

\* the monitor after construction, its record_* methods, reset_metrics and
\* get_health_status called in any order
HealthCallsInit ==
    /\ now = 0
    /\ HealthConstructed
    /\ BufferIdle
    /\ CoordConstructed
    /\ RetryIdle
    /\ ValidatorIdle
    /\ ListenerConstructed

HealthCallsNext ==
    \/ (\E success \in BOOLEAN : RecordApiCall(success))
           /\ UNCHANGED <<retry_vars, buffer_vars, coord_vars, validator_vars, listener_vars>>
    \/ (\E success \in BOOLEAN, points \in 0..1 : RecordTransmission(success, points))
           /\ UNCHANGED <<retry_vars, buffer_vars, coord_vars, validator_vars, listener_vars>>
    \/ GetHealthStatus
           /\ UNCHANGED <<retry_vars, buffer_vars, coord_vars, validator_vars, listener_vars>>
    \/ ResetMetrics
           /\ UNCHANGED <<retry_vars, buffer_vars, coord_vars, validator_vars, listener_vars>>

SpecHealthCalls == HealthCallsInit /\ [][HealthCallsNext]_vars

\* the number of failed calls at the end of the history, after its last success
RECURSIVE TrailingFailures(_)
TrailingFailures(history) ==
    IF history = <<>> \/ history[Len(history)] THEN 0
    ELSE 1 + TrailingFailures(SubSeq(history, 1, Len(history) - 1))

\* C40: after any sequence of record_api_call calls, api_calls_total =
\* api_calls_successful + api_calls_failed, and consecutive_failures equals the
\* number of failed calls recorded since the most recent successful call (or
\* since start or reset): it is 0 right after every success and never exceeds
\* api_calls_failed.
C40_ApiCallCountersConsistent ==
    /\ health_metrics.api_calls_total
           = health_metrics.api_calls_successful + health_metrics.api_calls_failed
    /\ health_metrics.api_calls_total = Len(api_call_history)
    /\ health_metrics.consecutive_failures = TrailingFailures(api_call_history)
    /\ health_metrics.consecutive_failures <= health_metrics.api_calls_failed
    /\ (health_last.op = "record_api_call" /\ health_last.success)
           => health_metrics.consecutive_failures = 0

\* a failure, a success and two more failures: two consecutive failures out of
\* three failed calls
C40_Witness ==
    /\ health_last.op = "record_api_call"
    /\ ~health_last.success
    /\ health_metrics.consecutive_failures = 2
    /\ health_metrics.api_calls_failed = 3
    /\ health_metrics.api_calls_successful = 1
====
